---- MODULE Spec2Model ----
(***************************************************************************)
(* Model of the cost tracker (src/tracker.py): the analysis engine         *)
(* (price_for, parse_real_usage, analyse) as operators, and the session    *)
(* lifecycle (mode_pre, mode_post, mode_stop, mode_prompt_inject and the    *)
(* entry point) as a state machine over the files of the sessions          *)
(* directory.                                                              *)
(*                                                                         *)
(* Conventions.  A Python dict read only through .get(k, default) is a      *)
(* record whose field holds the default when the key is absent.  Money is   *)
(* kept exact: rates are cents per million tokens and a cost is             *)
(* tokens * rate, i.e. the code's total_cost * 10^8 (the final division by  *)
(* 1_000_000 and float rounding are not modelled).                         *)
(***************************************************************************)
EXTENDS Integers, Sequences, FiniteSets, TLC

VARIABLES
    \* ---- analysis engine: the arguments and the result of one call ----
    events,        \* analyse: the event sequence
    transcript,    \* analyse / parse_real_usage: jsonl_path and what it holds
    data,          \* analyse: the returned dict
    matching,      \* analyse: for each pre event, the post event it took
    paired,        \* analyse: the list `paired`, one record per pre event
    model,         \* price_for: model identifier (dash-separated segments)
    models_dict,   \* price_for: rate-card table
    aliases_dict,  \* price_for: alias table
    pricing,       \* price_for: the returned rate card
    err,           \* whether the engine call raised an exception
    apc,           \* position of the engine call: "ready" | "done"
    \* ---- session lifecycle: the sessions directory and the handlers ----
    active,        \* sessions/active-<session_id>.jsonl, per session
    orphaned,      \* sessions/orphaned/active-<session_id>.jsonl
    archives,      \* sessions/<timestamp>.jsonl, by timestamp
    history,       \* sessions/history.jsonl, a sequence of records
    last_cost,     \* sessions/last-cost.txt
    now,           \* the wall clock, in seconds
    proc,          \* the handler invocations (one process each)
    quiet          \* per invocation: nothing else touched its session

engineVars == <<events, transcript, data, matching, paired, model, models_dict,
                aliases_dict, pricing, err, apc>>

sysVars == <<active, orphaned, archives, history, last_cost, now, proc,
             quiet>>

vars == <<events, transcript, data, matching, paired, model, models_dict,
          aliases_dict, pricing, err, apc, active, orphaned, archives,
          history, last_cost, now, proc, quiet>>

\* ------------------------------------------------------------------ bounds
MaxEvents == 3
MaxTs == 2
MaxLines == 4
MaxLogTokens == 4
MaxNow == 1
MaxDays == 2
MaxRepeats == 3
MaxHistory == 3
MaxHistDays == 2
MaxTurns == 3

\* --------------------------------------------------------------- constants
CONTEXT_CAP == 200000
MAX_RESPONSE_TOKENS == 50000
RETENTION == 86400

None == [none |-> TRUE]
\* a rate-card field the configuration leaves out
Absent == 0 - 1

Range(s) == {s[i] : i \in 1..Len(s)}

RECURSIVE SumSeq(_)
SumSeq(s) == IF s = <<>> THEN 0 ELSE Head(s) + SumSeq(Tail(s))

RECURSIVE MaxSeq(_)
MaxSeq(s) == IF s = <<>> THEN 0
             ELSE LET m == MaxSeq(Tail(s)) IN IF Head(s) > m THEN Head(s) ELSE m

Min(a, b) == IF a < b THEN a ELSE b

SeqsUpTo(S, n) == UNION {[1..k -> S] : k \in 0..n}

\* ------------------------------------------------------- Pricing Resolver
\* A model identifier is the sequence of its dash-separated segments
\* ("claude-sonnet-4-5" is <<"claude","sonnet","4","5">>); model.split("-")
\* of the empty identifier is <<"">>.  NoId stands for Python's None.
NoId == <<>>

FALLBACK_PRICING ==
    [input |-> 300, output |-> 1500, cache_creation |-> 375, cache_read |-> 30]

\* "-".join(parts[:end])
Candidate(parts, end) == SubSeq(parts, 1, end)

\* the prefixes tried from the shortest of 3 segments upwards
PrefixLookupShortestFirst(parts, end, md) ==
    LET hits == {e \in 3..end : SubSeq(parts, 1, e) \in DOMAIN md} IN
    IF hits = {} THEN None
    ELSE md[SubSeq(parts, 1, CHOOSE e \in hits : \A f \in hits : e <= f)]

\* for end in range(len(parts), 2, -1): first candidate found in models_dict
RECURSIVE PrefixLookup(_, _, _)
PrefixLookup(parts, end, md) ==
    IF end <= 2 THEN None
    ELSE IF Candidate(parts, end) \in DOMAIN md THEN md[Candidate(parts, end)]
    ELSE PrefixLookup(parts, end - 1, md)

\* price_for with the alias lookup tried before the direct match
price_for_alias_first(m, md, ad) ==
    LET resolved == IF m \in DOMAIN ad THEN ad[m] ELSE NoId
    IN  IF resolved # NoId /\ resolved \in DOMAIN md THEN md[resolved]
        ELSE IF m \in DOMAIN md THEN md[m]
        ELSE LET p == PrefixLookup(m, Len(m), md)
             IN  IF p # None THEN p ELSE FALLBACK_PRICING

price_for(m, md, ad) ==
    IF m \in DOMAIN md THEN md[m]
    ELSE LET resolved == IF m \in DOMAIN ad THEN ad[m] ELSE NoId
         IN  IF resolved # NoId /\ resolved \in DOMAIN md THEN md[resolved]
             ELSE LET p == PrefixLookup(m, Len(m), md)
                  IN  IF p # None THEN p ELSE FALLBACK_PRICING

\* pricing.get("cache_creation", pricing["input"] * 1.25) and
\* pricing.get("cache_read", pricing["input"] * 0.1)
CacheCreationRate(card) ==
    IF card.cache_creation # Absent THEN card.cache_creation
    ELSE (card.input * 5) \div 4
CacheReadRate(card) ==
    IF card.cache_read # Absent THEN card.cache_read ELSE card.input \div 10

\* ------------------------------------------ Authoritative Usage Extractor
\* A transcript is [path, lines]: path is "none" (find_claude_session_jsonl
\* found no file), "unreadable" (open() raises) or "file".  A line is a
\* record whose kind is
\*   "blank"     empty after strip()
\*   "junk"      json.loads raises JSONDecodeError
\*   "nonobject" JSON that is no object: d.get raises inside the outer try
\*   "user"      an object whose type is not "assistant"
\*   "nousage"   an assistant record whose message has no "usage"
\*   "usage"     an assistant record with usage figures
\* requestId is "none" when the record carries no requestId (d.get -> None).
NoPath == [path |-> "none", lines |-> <<>>]
Unreadable == [path |-> "unreadable", lines |-> <<>>]
TranscriptFile(lines) == [path |-> "file", lines |-> lines]

\* a retained record whose context size leaves the cache reads out
ApiCallNoCacheRead(d) ==
    [ts |-> d.ts, model |-> d.model, input |-> d.input, output |-> d.output,
     cache_create |-> d.cc, cache_read |-> d.cr,
     total_ctx |-> d.input + d.cc]

\* lines 153-166: the record appended to api_calls
ApiCall(d) ==
    [ts |-> d.ts, model |-> d.model, input |-> d.input, output |-> d.output,
     cache_create |-> d.cc, cache_read |-> d.cr,
     total_ctx |-> d.input + d.cc + d.cr]

\* The loop without the seen_req test: every usage record is retained
RECURSIVE ParseLinesNoDedup(_, _, _)
ParseLinesNoDedup(lines, seen_req, api_calls) ==
    IF lines = <<>> THEN [raised |-> FALSE, calls |-> api_calls]
    ELSE LET d == Head(lines) rest == Tail(lines) IN
         IF d.kind \in {"blank", "junk", "user", "nousage"}
         THEN ParseLinesNoDedup(rest, seen_req, api_calls)
         ELSE IF d.kind = "nonobject" THEN [raised |-> TRUE, calls |-> <<>>]
         ELSE ParseLinesNoDedup(rest, seen_req, Append(api_calls, ApiCall(d)))

\* The loop of lines 136-166 over the lines of the file: the retained
\* api_calls, or raised when a line raises an exception the outer try catches.
RECURSIVE ParseLines(_, _, _)
ParseLines(lines, seen_req, api_calls) ==
    IF lines = <<>> THEN [raised |-> FALSE, calls |-> api_calls]
    ELSE LET d == Head(lines) rest == Tail(lines) IN
         IF d.kind \in {"blank", "junk", "user", "nousage"}
         THEN ParseLines(rest, seen_req, api_calls)
         ELSE IF d.kind = "nonobject" THEN [raised |-> TRUE, calls |-> <<>>]
         ELSE IF d.requestId \in seen_req
         THEN ParseLines(rest, seen_req, api_calls)
         ELSE ParseLines(rest, seen_req \cup {d.requestId},
                         Append(api_calls, ApiCall(d)))

Field(calls, f) == [i \in 1..Len(calls) |-> calls[i][f]]

\* next((e["model"] for e in reversed(api_calls) if e["model"]), "")
RECURSIVE LastModel(_)
LastModel(calls) ==
    IF calls = <<>> THEN <<"">>
    ELSE IF calls[Len(calls)].model # <<"">> THEN calls[Len(calls)].model
    ELSE LastModel(SubSeq(calls, 1, Len(calls) - 1))

\* parse_real_usage keeping what was read before a line raised
parse_real_usage_partial(jsonl) ==
    IF jsonl.path = "unreadable" THEN None
    ELSE LET upto == CHOOSE n \in 0..Len(jsonl.lines) :
                         /\ \A i \in 1..n : jsonl.lines[i].kind # "nonobject"
                         /\ n < Len(jsonl.lines)
                                => jsonl.lines[n + 1].kind = "nonobject"
             api_calls == ParseLines(SubSeq(jsonl.lines, 1, upto), {}, <<>>).calls
         IN
         IF api_calls = <<>> THEN None
         ELSE [input_tokens          |-> SumSeq(Field(api_calls, "input")),
               output_tokens         |-> SumSeq(Field(api_calls, "output")),
               cache_creation_tokens |-> SumSeq(Field(api_calls, "cache_create")),
               cache_read_tokens     |-> SumSeq(Field(api_calls, "cache_read")),
               api_calls             |-> Len(api_calls),
               model                 |-> LastModel(api_calls),
               context_by_turn       |->
                   [i \in 1..Len(api_calls) |->
                       [ts |-> api_calls[i].ts,
                        total_ctx |-> api_calls[i].total_ctx]]]

\* The usage summary, or None
parse_real_usage(jsonl) ==
    IF jsonl.path = "unreadable" THEN None
    ELSE LET r == ParseLines(jsonl.lines, {}, <<>>)
             api_calls == r.calls
         IN
         IF r.raised THEN None
         ELSE IF api_calls = <<>> THEN None
         ELSE [input_tokens          |-> SumSeq(Field(api_calls, "input")),
               output_tokens         |-> SumSeq(Field(api_calls, "output")),
               cache_creation_tokens |-> SumSeq(Field(api_calls, "cache_create")),
               cache_read_tokens     |-> SumSeq(Field(api_calls, "cache_read")),
               api_calls             |-> Len(api_calls),
               model                 |-> LastModel(api_calls),
               context_by_turn       |->
                   [i \in 1..Len(api_calls) |->
                       [ts |-> api_calls[i].ts,
                        total_ctx |-> api_calls[i].total_ctx]]]

\* ------------------------------------------------------ Timing Reconciler
\* An InstrumentationEvent as mode_pre / mode_post write it.  Fields a kind
\* does not carry hold the default analyse reads them with: 0 for
\* input_tokens / response_tokens, NoCommand for command, NoId for model.
\* A command is the sequence of its whitespace-separated words; NoCommand
\* stands for a missing or empty command.
NoCommand == <<>>

McpTools == {"mcp__files"}

TOOL_CATEGORIES ==
    [Read |-> "Reading files", Write |-> "Writing files",
     Edit |-> "Editing files", MultiEdit |-> "Editing files",
     Bash |-> "Running commands", Task |-> "Delegating to sub-task",
     Grep |-> "Searching code", Glob |-> "Searching code",
     WebFetch |-> "Browsing web", WebSearch |-> "Browsing web"]

category_for(tool_name) ==
    IF tool_name \in McpTools THEN "MCP tool call"
    ELSE IF tool_name \in DOMAIN TOOL_CATEGORIES THEN TOOL_CATEGORIES[tool_name]
    ELSE "Other"

\* Positions in evs of the events of one type, in original order
EventsOfType(evs, type) ==
    SelectSeq([i \in 1..Len(evs) |-> i], LAMBDA i : evs[i].type = type)

\* post_by_tool as an earlier run of the loop left it: the after events
\* already taken (in matching) are gone from the lists
PostByToolConsumed(evs) ==
    [t \in {evs[i].tool : i \in 1..Len(evs)} |->
        SelectSeq(EventsOfType(evs, "post"),
                  LAMBDA i : /\ evs[i].tool = t
                             /\ \A n \in 1..Len(matching) : matching[n].post # i)]

\* post_by_tool: for each tool, the positions of its post events, in order
PostByTool(evs) ==
    [t \in {evs[i].tool : i \in 1..Len(evs)} |->
        SelectSeq(EventsOfType(evs, "post"), LAMBDA i : evs[i].tool = t)]

\* the same search with >= in place of >
RECURSIVE FirstAfterOrEqual(_, _, _, _)
FirstAfterOrEqual(evs, candidates, ts, k) ==
    IF k > Len(candidates) THEN 0
    ELSE IF evs[candidates[k]].ts >= ts THEN k
    ELSE FirstAfterOrEqual(evs, candidates, ts, k + 1)

\* next((c for c in candidates if c["ts"] > pre["ts"]), None):
\* the index in candidates of the first such c, 0 for None
RECURSIVE FirstAfter(_, _, _, _)
FirstAfter(evs, candidates, ts, k) ==
    IF k > Len(candidates) THEN 0
    ELSE IF evs[candidates[k]].ts > ts THEN k
    ELSE FirstAfter(evs, candidates, ts, k + 1)

RemoveAt(s, k) == SubSeq(s, 1, k - 1) \o SubSeq(s, k + 1, Len(s))

\* candidates.remove(matched) left out: the pool keeps the matched event
RemoveMatchedKept(evs, candidates, matched) == candidates

\* candidates.remove(matched): list.remove drops the first element that
\* compares equal to matched
RemoveMatched(evs, candidates, matched) ==
    LET k == CHOOSE k \in 1..Len(candidates) :
                 /\ evs[candidates[k]] = evs[matched]
                 /\ \A j \in 1..(k - 1) : evs[candidates[j]] # evs[matched]
    IN  RemoveAt(candidates, k)

\* The loop of lines 202-221.  pres: positions of the pre events still to
\* process; pool: post_by_tool; acc: for each processed pre event its
\* position and the position of the post event it matched (0: none).
RECURSIVE PairLoop(_, _, _, _)
PairLoop(evs, pres, pool, acc) ==
    IF pres = <<>> THEN acc
    ELSE LET i == Head(pres)
             tool == evs[i].tool
             candidates == IF tool \in DOMAIN pool THEN pool[tool] ELSE <<>>
             k == FirstAfter(evs, candidates, evs[i].ts, 1)
         IN  IF k # 0
             THEN PairLoop(evs, Tail(pres),
                      [pool EXCEPT ![tool] =
                          RemoveMatched(evs, candidates, candidates[k])],
                      Append(acc, [pre |-> i, post |-> candidates[k]]))
             ELSE PairLoop(evs, Tail(pres), pool,
                      Append(acc, [pre |-> i, post |-> 0]))

Pairing(evs) == PairLoop(evs, EventsOfType(evs, "pre"), PostByTool(evs), <<>>)

\* paired: one record per pre event
Paired(evs) ==
    LET m == Pairing(evs) IN
    [n \in 1..Len(m) |->
        LET pre == evs[m[n].pre] IN
        [tool            |-> pre.tool,
         category        |-> category_for(pre.tool),
         elapsed_s       |-> IF m[n].post # 0
                             THEN evs[m[n].post].ts - pre.ts ELSE 0,
         input_tokens    |-> pre.input_tokens,
         response_tokens |-> IF m[n].post # 0
                             THEN evs[m[n].post].response_tokens ELSE 0,
         command         |-> pre.command,
         ts              |-> pre.ts]]

\* ------------------------------------------------------ Suggestions
\* bash_commands, lines 236-240: a Counter keyed by the first word of the
\* command of every Bash invocation that has one, as the sequence of its
\* [cmd, count] entries in the order the keys were first met
RECURSIVE CountCommands(_, _)
CountCommands(invs, acc) ==
    IF invs = <<>> THEN acc
    ELSE LET p == Head(invs) IN
         IF p.tool = "Bash" /\ p.command # NoCommand
         THEN LET base == Head(p.command)
                  at == {k \in 1..Len(acc) : acc[k].cmd = base}
              IN  IF at = {}
                  THEN CountCommands(Tail(invs),
                           Append(acc, [cmd |-> base, count |-> 1]))
                  ELSE CountCommands(Tail(invs),
                           [k \in 1..Len(acc) |->
                               IF k \in at
                               THEN [acc[k] EXCEPT !.count = @ + 1]
                               ELSE acc[k]])
         ELSE CountCommands(Tail(invs), acc)

\* Counter.most_common(n): the n entries of greatest count, greatest first,
\* entries of equal count in the order first met
RECURSIVE InsertByCount(_, _)
InsertByCount(sorted, x) ==
    IF sorted = <<>> THEN <<x>>
    ELSE IF Head(sorted).count >= x.count
         THEN <<Head(sorted)>> \o InsertByCount(Tail(sorted), x)
         ELSE <<x>> \o sorted

RECURSIVE SortedByCount(_)
SortedByCount(s) ==
    IF s = <<>> THEN <<>>
    ELSE InsertByCount(SortedByCount(SubSeq(s, 1, Len(s) - 1)), s[Len(s)])

most_common(counter, n) == SubSeq(SortedByCount(counter), 1, Min(n, Len(counter)))

\* A suggestion: rule "repeat" (command cmd ran n times), rule "peak" (peak
\* context of n thousand tokens), or the generic message
Generic == [rule |-> "none", cmd |-> "", n |-> 0]

\* lines 298-307 without the cut to three entries
SuggestionsUncapped(bash_commands, peak_tokens) ==
    LET top == SelectSeq(most_common(bash_commands, 3), LAMBDA e : e.count > 2)
        all == [k \in 1..Len(top) |->
                   [rule |-> "repeat", cmd |-> top[k].cmd, n |-> top[k].count]]
               \o (IF peak_tokens > 50000
                   THEN <<[rule |-> "peak", cmd |-> "", n |-> peak_tokens \div 1000]>>
                   ELSE <<>>)
    IN  IF all = <<>> THEN <<Generic>> ELSE all

\* lines 298-308
Suggestions(bash_commands, peak_tokens) ==
    LET top == SelectSeq(most_common(bash_commands, 3), LAMBDA e : e.count > 2)
        all == [k \in 1..Len(top) |->
                   [rule |-> "repeat", cmd |-> top[k].cmd, n |-> top[k].count]]
               \o (IF peak_tokens > 50000
                   THEN <<[rule |-> "peak", cmd |-> "", n |-> peak_tokens \div 1000]>>
                   ELSE <<>>)
        cut == SubSeq(all, 1, Min(3, Len(all)))
    IN  IF cut = <<>> THEN <<Generic>> ELSE cut

\* --------------------------------------------------------- Cost Estimator
\* "claude-sonnet-4-6", the model assumed when none is reported
DefaultModel == <<"claude", "sonnet", "4", "6">>

EmptyData == [empty |-> TRUE]

\* sorted(paired, key=lambda x: x["ts"]): a stable sort
RECURSIVE InsertByTs(_, _)
InsertByTs(sorted, x) ==
    IF sorted = <<>> THEN <<x>>
    ELSE IF Head(sorted).ts <= x.ts
         THEN <<Head(sorted)>> \o InsertByTs(Tail(sorted), x)
         ELSE <<x>> \o sorted

RECURSIVE SortedByTs(_)
SortedByTs(s) ==
    IF s = <<>> THEN <<>>
    ELSE InsertByTs(SortedByTs(SubSeq(s, 1, Len(s) - 1)), s[Len(s)])

\* next((e.get("model") for e in events if e.get("model")), "claude-sonnet-4-6")
RECURSIVE FirstEventModel(_)
FirstEventModel(evs) ==
    IF evs = <<>> THEN DefaultModel
    ELSE IF Head(evs).model # NoId /\ Head(evs).model # <<"">>
         THEN Head(evs).model
         ELSE FirstEventModel(Tail(evs))

\* max(all_ts) - min(all_ts) if len(all_ts) > 1 else 0
Duration(evs) ==
    IF Len(evs) > 1
    THEN LET ts == {evs[i].ts : i \in 1..Len(evs)}
         IN  (CHOOSE a \in ts : \A b \in ts : a >= b)
             - (CHOOSE a \in ts : \A b \in ts : a <= b)
    ELSE 0

\* the authoritative sum with the cache reads taken as a refund
AuthoritativeCostCacheRefund(real_usage, card) ==
    real_usage.input_tokens * card.input
    + real_usage.output_tokens * card.output
    + real_usage.cache_creation_tokens * CacheCreationRate(card)
    - real_usage.cache_read_tokens * CacheReadRate(card)

\* The authoritative branch, lines 247-267
AuthoritativeCost(real_usage, card) ==
    real_usage.input_tokens * card.input
    + real_usage.output_tokens * card.output
    + real_usage.cache_creation_tokens * CacheCreationRate(card)
    + real_usage.cache_read_tokens * CacheReadRate(card)

\* The degraded branch, lines 277-292: the running context counter after
\* each of the sorted invocations, and the summed turn costs
\* the running counter without the cap
DegradedTimelineUncapped(sorted_events, context_cap) ==
    LET cum[i \in 0..Len(sorted_events)] ==
            IF i = 0 THEN 0
            ELSE cum[i - 1] + sorted_events[i].input_tokens
                            + sorted_events[i].response_tokens
    IN  [i \in 1..Len(sorted_events) |->
            [ts |-> sorted_events[i].ts, tokens |-> cum[i]]]

DegradedTimeline(sorted_events, context_cap) ==
    LET cum[i \in 0..Len(sorted_events)] ==
            IF i = 0 THEN 0
            ELSE Min(cum[i - 1] + sorted_events[i].input_tokens
                                + sorted_events[i].response_tokens,
                     context_cap)
    IN  [i \in 1..Len(sorted_events) |->
            [ts |-> sorted_events[i].ts, tokens |-> cum[i]]]

\* the turn costs with turns_remaining counted from 0 for the last turn
DegradedCostOffByOne(sorted_events, card) ==
    LET turn_count == Len(sorted_events)
        turn_cost(i) ==
            sorted_events[i].response_tokens * card.input * (turn_count - i)
            + sorted_events[i].response_tokens * card.output
    IN  SumSeq([i \in 1..turn_count |-> turn_cost(i)])

DegradedCost(sorted_events, card) ==
    LET turn_count == Len(sorted_events)
        turn_cost(i) ==
            sorted_events[i].response_tokens * card.input * (turn_count - (i - 1))
            + sorted_events[i].response_tokens * card.output
    IN  SumSeq([i \in 1..turn_count |-> turn_cost(i)])

analyse(evs, pricing_models, pricing_aliases, context_cap, jsonl) ==
    IF evs = <<>> THEN EmptyData
    ELSE
    LET invocations == Paired(evs)
        bash_commands == CountCommands(invocations, <<>>)
        real_usage == IF jsonl.path # "none" THEN parse_real_usage(jsonl)
                      ELSE None
        using_real_data == real_usage # None
    IN
    IF using_real_data
    THEN LET m == IF real_usage.model # <<"">> THEN real_usage.model
                  ELSE DefaultModel
             card == price_for(m, pricing_models, pricing_aliases)
             context_timeline ==
                 [i \in 1..Len(real_usage.context_by_turn) |->
                     [ts     |-> real_usage.context_by_turn[i].ts,
                      tokens |-> real_usage.context_by_turn[i].total_ctx]]
         IN  [duration_s       |-> Duration(evs),
              total_cost       |-> AuthoritativeCost(real_usage, card),
              peak_tokens      |-> MaxSeq(Field(context_timeline, "tokens")),
              tool_calls       |-> Len(invocations),
              api_calls        |-> real_usage.api_calls,
              context_timeline |-> context_timeline,
              suggestions      |-> Suggestions(bash_commands,
                                      MaxSeq(Field(context_timeline, "tokens"))),
              bash_commands    |-> bash_commands,
              model            |-> m,
              using_real_data  |-> using_real_data,
              pricing          |-> card,
              inp_tok          |-> real_usage.input_tokens,
              out_tok          |-> real_usage.output_tokens,
              cc_tok           |-> real_usage.cache_creation_tokens,
              cr_tok           |-> real_usage.cache_read_tokens]
    ELSE LET m == FirstEventModel(evs)
             card == price_for(m, pricing_models, pricing_aliases)
             sorted_events == SortedByTs(invocations)
             context_timeline == DegradedTimeline(sorted_events, context_cap)
         IN  [duration_s       |-> Duration(evs),
              total_cost       |-> DegradedCost(sorted_events, card),
              peak_tokens      |-> MaxSeq(Field(context_timeline, "tokens")),
              tool_calls       |-> Len(invocations),
              api_calls        |-> Len(invocations),
              context_timeline |-> context_timeline,
              suggestions      |-> Suggestions(bash_commands,
                                      MaxSeq(Field(context_timeline, "tokens"))),
              bash_commands    |-> bash_commands,
              model            |-> m,
              using_real_data  |-> using_real_data,
              pricing          |-> card,
              inp_tok          |-> 0,
              out_tok          |-> 0,
              cc_tok           |-> 0,
              cr_tok           |-> 0]

\* ------------------------------------------------ inputs of the engine
Dated == <<"claude", "sonnet", "4", "5", "20250929">>
Sonnet45 == <<"claude", "sonnet", "4", "5">>
Sonnet4 == <<"claude", "sonnet", "4">>
ClaudeSonnet == <<"claude", "sonnet">>
SonnetAlias == <<"sonnet">>
Opus4 == <<"claude", "opus", "4">>

ModelIds == {Dated, Sonnet45, Sonnet4, ClaudeSonnet, SonnetAlias, Opus4}
AliasNames == {Dated, SonnetAlias}

\* One rate card per table key, pairwise different and different from the
\* fallback card; some leave the cache rates out.
CardOf(id) ==
    CASE id = Dated        -> [input |-> 100, output |-> 500,
                               cache_creation |-> 120, cache_read |-> 10]
      [] id = Sonnet45     -> [input |-> 320, output |-> 1600,
                               cache_creation |-> Absent, cache_read |-> Absent]
      [] id = Sonnet4      -> [input |-> 340, output |-> 1700,
                               cache_creation |-> 400, cache_read |-> Absent]
      [] id = ClaudeSonnet -> [input |-> 360, output |-> 1800,
                               cache_creation |-> 450, cache_read |-> 36]
      [] id = SonnetAlias  -> [input |-> 380, output |-> 1900,
                               cache_creation |-> 470, cache_read |-> 38]
      [] id = Opus4        -> [input |-> 1500, output |-> 7500,
                               cache_creation |-> 1875, cache_read |-> 150]

Tables == {[k \in S |-> CardOf(k)] : S \in SUBSET ModelIds}
AliasTables == UNION {[D -> ModelIds] : D \in SUBSET AliasNames}
EmptyDict == <<>>

Tools == {"Read", "Bash"}

\* The event mode_pre builds (lines 464-478), for a tool input estimated at
\* 100 tokens, and the event mode_post builds (lines 498-506), for a tool
\* response estimated at 50 tokens
PreEventOf(ts, tool, session_id) ==
    [type |-> "pre", ts |-> ts, tool |-> tool, session_id |-> session_id,
     input_tokens |-> 100, response_tokens |-> 0, command |-> NoCommand,
     model |-> NoId]
PostEventOf(ts, tool, session_id) ==
    [type |-> "post", ts |-> ts, tool |-> tool, session_id |-> session_id,
     input_tokens |-> 0, response_tokens |-> 50, command |-> NoCommand,
     model |-> NoId]

PreEvent(ts, tool) == PreEventOf(ts, tool, "s1")
PostEvent(ts, tool) == PostEventOf(ts, tool, "s1")

PairEvents ==
    {PreEvent(ts, tool) : ts \in 0..MaxTs, tool \in Tools}
    \cup {PostEvent(ts, tool) : ts \in 0..MaxTs, tool \in Tools}

\* "one before Read at t=0 and one matching after at t=2"
ScenarioEvents == <<PreEvent(0, "Read"), PostEvent(2, "Read")>>

OtherLine(kind) ==
    [kind |-> kind, requestId |-> "none", input |-> 0, output |-> 0,
     cc |-> 0, cr |-> 0, model |-> <<"">>, ts |-> ""]
UsageLine(req, t) ==
    [kind |-> "usage", requestId |-> req, input |-> t, output |-> 10 * t,
     cc |-> 100 * t, cr |-> 1000 * t,
     model |-> IF t = 1 THEN <<"">> ELSE Dated, ts |-> "t"]

RequestIds == {"r1", "r2"}
TranscriptLines ==
    {OtherLine(k) : k \in {"blank", "junk", "nonobject", "user", "nousage"}}
    \cup {UsageLine(r, t) : r \in RequestIds \cup {"none"}, t \in {1, 2}}

Transcripts ==
    {NoPath, Unreadable}
    \cup {TranscriptFile(l) : l \in SeqsUpTo(TranscriptLines, MaxLines)}

PricingModels == [k \in {Sonnet45, Opus4} |-> CardOf(k)]

\* ------------------------------------------------------- the session log
\* The content of a file is a sequence of tokens: the JSON text of one
\* event ("ev"; `by` is the invocation that wrote it), a newline ("nl"),
\* whitespace other than a newline ("ws"), and text that is no JSON value
\* ("junk").
NoEv ==
    [type |-> "none", ts |-> 0, tool |-> "", session_id |-> "",
     input_tokens |-> 0, response_tokens |-> 0, command |-> NoCommand,
     model |-> NoId]
EvTok(e, by) == [k |-> "ev", ev |-> e, by |-> by]
NL == [k |-> "nl", ev |-> NoEv, by |-> 0]
WS == [k |-> "ws", ev |-> NoEv, by |-> 0]
JUNK == [k |-> "junk", ev |-> NoEv, by |-> 0]

NoFile == [exists |-> FALSE, content |-> <<>>, mtime |-> 0]
FileOf(content, mtime) == [exists |-> TRUE, content |-> content, mtime |-> mtime]

\* f.write(json.dumps(event) + "\n") with the file closed right after: the
\* text stays in the buffer until close() flushes it, as one write(2) call
\* on a descriptor opened with O_APPEND (a record is far shorter than the
\* buffer).  The result is the sequence of write calls, each a token
\* sequence the kernel appends atomically.
WriteCallsUnbuffered(e, by) == <<<<EvTok(e, by)>>, <<NL>>>>

WriteCalls(e, by) == <<<<EvTok(e, by), NL>>>>

\* for line in f: the lines of the file; the last one need not end in "\n"
RECURSIVE SplitLines(_, _)
SplitLines(content, cur) ==
    IF content = <<>> THEN (IF cur = <<>> THEN <<>> ELSE <<cur>>)
    ELSE IF Head(content).k = "nl"
         THEN <<cur>> \o SplitLines(Tail(content), <<>>)
         ELSE SplitLines(Tail(content), Append(cur, Head(content)))

\* line.strip()
RECURSIVE StripLeft(_)
StripLeft(line) ==
    IF line # <<>> /\ Head(line).k = "ws" THEN StripLeft(Tail(line)) ELSE line
RECURSIVE StripRight(_)
StripRight(line) ==
    IF line # <<>> /\ line[Len(line)].k = "ws"
    THEN StripRight(SubSeq(line, 1, Len(line) - 1)) ELSE line
Strip(line) == StripRight(StripLeft(line))

\* json.loads(line): the event, or JSONDecodeError for anything that is not
\* exactly one JSON value
JsonLoads(line) ==
    IF Len(line) = 1 /\ line[1].k = "ev"
    THEN [ok |-> TRUE, ev |-> line[1].ev]
    ELSE [ok |-> FALSE, ev |-> NoEv]

\* a read loop without the except clause
OnJSONDecodeErrorRaise(line) == "raise"

\* except json.JSONDecodeError: pass
OnJSONDecodeError(line) == "pass"

\* The loop of lines 82-89
RECURSIVE ReadLoop(_, _)
ReadLoop(lines, evs) ==
    IF lines = <<>> THEN [raised |-> FALSE, events |-> evs]
    ELSE LET line == Strip(Head(lines)) IN
         IF line = <<>> THEN ReadLoop(Tail(lines), evs)
         ELSE IF JsonLoads(line).ok
              THEN ReadLoop(Tail(lines), Append(evs, JsonLoads(line).ev))
              ELSE IF OnJSONDecodeError(line) = "pass"
                   THEN ReadLoop(Tail(lines), evs)
                   ELSE [raised |-> TRUE, events |-> <<>>]

read_events(file) ==
    IF ~file.exists THEN [raised |-> FALSE, events |-> <<>>]
    ELSE ReadLoop(SplitLines(file.content, <<>>), <<>>)


\* --------------------------------------------------- the handler processes
\* Every lifecycle signal runs tracker.py once, as a process of its own.
\* "unknown" is the session a payload without session_id (or, for stop, an
\* unparsable payload) falls to.
Sessions == {"s1", "unknown"}
\* The invocations under study: two processes, each running one handler,
\* in any interleaving
Procs == {1, 2}
PayloadTools == {"Read"}

IdleProc ==
    [mode |-> "idle", pc |-> "idle", session |-> "none", inv |-> 0,
     event |-> NoEv, pending |-> <<>>, fd |-> "none",
     events |-> <<>>, raw |-> NoFile, summary |-> FALSE,
     tool_calls |-> 0, real |-> FALSE,
     jsonl |-> "none", ts_str |-> 0, hist0 |-> 0,
     out |-> <<>>, exit |-> "running", faulted |-> FALSE]

NewProc(p, mode, session, pc) ==
    [IdleProc EXCEPT !.mode = mode, !.session = session, !.pc = pc,
                     !.inv = p,
                     !.hist0 = Len(SelectSeq(history,
                                    LAMBDA h : h.session_id = session))]

CanStart(p) == proc[p].pc = "idle"

\* quiet[q] stays TRUE while no other invocation acts on q's session
Touch(p, touched) ==
    [q \in Procs |-> IF q # p /\ proc[q].session \in touched
                     THEN FALSE ELSE quiet[q]]

\* print("{}") in the except clause of the entry point, lines 692-693,
\* left out
ExceptOutputNone(mode) == <<>>

\* lines 690-693: what the except clause of the entry point prints to stdout
ExceptOutput(mode) == IF mode \in {"pre", "post"} THEN <<"{}">> ELSE <<>>

\* an entry point without the try statement: the exception ends the process
ExitStatusUncaught(faulted) == IF faulted THEN "1" ELSE "0"

\* lines 694-695: finally: sys.exit(0)
ExitStatus(faulted) == "0"

\* The process has exited: its answer, its exit status and whether an
\* exception reached the entry point are what is left of it
Finished(r, out, faulted) ==
    [IdleProc EXCEPT !.mode = r.mode, !.session = r.session, !.inv = r.inv,
                     !.hist0 = r.hist0, !.pc = "done", !.out = out,
                     !.exit = ExitStatus(faulted), !.faulted = faulted]

\* mode_pre / mode_post, lines 454-458 and 488-492: an unparsable payload
BadPayload(p, mode) ==
    /\ CanStart(p)
    /\ mode \in {"pre", "post"}
    /\ proc' = [proc EXCEPT ![p] =
                   Finished(NewProc(p, mode, "none", "start"), <<"{}">>, FALSE)]
    /\ quiet' = [quiet EXCEPT ![p] = TRUE]
    /\ UNCHANGED <<active, orphaned, archives, history, last_cost, now>>
    /\ UNCHANGED engineVars

\* mode_pre, lines 460-482: the event is built; with probability 0.01 the
\* sweep runs before the append
StartPre(p, session_id, tool_name, sweep) ==
    /\ CanStart(p)
    /\ sweep => \E s \in Sessions : active[s].exists /\ active[s].mtime < now - RETENTION
    /\ proc' = [proc EXCEPT ![p] =
                   [NewProc(p, "pre", session_id,
                            IF sweep THEN "sweep" ELSE "open")
                       EXCEPT !.event = PreEventOf(now, tool_name, session_id)]]
    /\ quiet' = [Touch(p, {session_id}) EXCEPT ![p] = TRUE]
    /\ UNCHANGED <<active, orphaned, archives, history, last_cost, now>>
    /\ UNCHANGED engineVars

\* mode_post, lines 494-506
StartPost(p, session_id, tool_name) ==
    /\ CanStart(p)
    /\ proc' = [proc EXCEPT ![p] =
                   [NewProc(p, "post", session_id, "open")
                       EXCEPT !.event = PostEventOf(now, tool_name, session_id)]]
    /\ quiet' = [Touch(p, {session_id}) EXCEPT ![p] = TRUE]
    /\ UNCHANGED <<active, orphaned, archives, history, last_cost, now>>
    /\ UNCHANGED engineVars

\* cleanup_orphaned, lines 92-100: every active log last modified more than
\* RETENTION seconds ago is moved (renamed) into the orphaned directory; a
\* descriptor open on a moved file follows it, one open on a file the move
\* replaces keeps writing to a file without a name
Stale(s) == active[s].exists /\ active[s].mtime < now - RETENTION

Sweep(p) ==
    /\ proc[p].pc = "sweep"
    /\ LET moved == {s \in Sessions : Stale(s)} IN
       /\ active' = [s \in Sessions |->
                        IF s \in moved THEN NoFile ELSE active[s]]
       /\ orphaned' = [s \in Sessions |->
                          IF s \in moved THEN active[s] ELSE orphaned[s]]
       /\ proc' = [q \in Procs |->
                      IF q = p THEN [proc[p] EXCEPT !.pc = "open"]
                      ELSE IF proc[q].session \in moved /\ proc[q].fd = "active"
                           THEN [proc[q] EXCEPT !.fd = "orphaned"]
                      ELSE IF proc[q].session \in moved /\ proc[q].fd = "orphaned"
                           THEN [proc[q] EXCEPT !.fd = "gone"]
                      ELSE proc[q]]
       /\ quiet' = Touch(p, moved \cup {proc[p].session})
    /\ UNCHANGED <<archives, history, last_cost, now>>
    /\ UNCHANGED engineVars

\* append_event, lines 72-73: open(session_file(session_id), "a") creates
\* the file when it is missing
Open(p) ==
    /\ proc[p].pc = "open"
    /\ LET s == proc[p].session IN
       /\ active' = [active EXCEPT ![s] =
                        IF active[s].exists THEN active[s] ELSE FileOf(<<>>, now)]
       /\ proc' = [proc EXCEPT ![p] =
                      [proc[p] EXCEPT !.pc = "write", !.fd = "active",
                           !.pending = WriteCalls(proc[p].event, proc[p].inv)]]
       /\ quiet' = Touch(p, {s})
    /\ UNCHANGED <<orphaned, archives, history, last_cost, now>>
    /\ UNCHANGED engineVars

\* append_event, line 74 and the close of the with block: one write call
\* reaches the file the descriptor is open on; after the last one the
\* handler prints "{}" (lines 484, 509)
Write(p) ==
    /\ proc[p].pc = "write"
    /\ LET s == proc[p].session
           call == Head(proc[p].pending)
           rest == Tail(proc[p].pending)
       IN
       /\ active' = IF proc[p].fd = "active"
                    THEN [active EXCEPT ![s] =
                             FileOf(active[s].content \o call, now)]
                    ELSE active
       /\ orphaned' = IF proc[p].fd = "orphaned"
                      THEN [orphaned EXCEPT ![s] =
                               FileOf(orphaned[s].content \o call, now)]
                      ELSE orphaned
       /\ proc' = [proc EXCEPT ![p] =
                      IF rest = <<>> THEN Finished(proc[p], <<"{}">>, FALSE)
                      ELSE [proc[p] EXCEPT !.pending = rest]]
       /\ quiet' = Touch(p, {s})
    /\ UNCHANGED <<archives, history, last_cost, now>>
    /\ UNCHANGED engineVars


\* mode_stop, lines 568-573: an unparsable payload is read as {}, whose
\* session is "unknown" (the case session_id = "unknown")
StartStop(p, session_id) ==
    /\ CanStart(p)
    /\ proc' = [proc EXCEPT ![p] = NewProc(p, "stop", session_id, "read")]
    /\ quiet' = [Touch(p, {session_id}) EXCEPT ![p] = TRUE]
    /\ UNCHANGED <<active, orphaned, archives, history, last_cost, now>>
    /\ UNCHANGED engineVars

\* find_claude_session_jsonl: the transcript of the session, when the
\* execution environment wrote one; never for "unknown" (line 107)
SessionTranscript(jsonl) ==
    IF jsonl = "file" THEN TranscriptFile(<<UsageLine("r1", 1)>>) ELSE NoPath

\* a "block" decision whenever the transcript does not show the cost box,
\* whether or not there is a summary
AnswerUnlessShown(r, shown) ==
    IF ~shown THEN <<"block">> ELSE <<"{}">>

\* mode_stop, lines 583-594: a "block" decision carrying the summary, unless
\* the summary is empty or the transcript already shows the cost box
Answer(r, shown) ==
    IF r.summary /\ ~shown THEN <<"block">> ELSE <<"{}">>

\* _archive_session without the test of lines 544-545
ArchiveNeverSkipped(evs) == FALSE

\* _archive_session, lines 544-545: if not events: return
ArchiveSkipped(evs) == evs = <<>>

\* mode_stop, lines 574-581: the log is read and analysed.  When
\* _archive_session returns at once the handler goes on to print its answer
\* (583-594), which is "{}" for the empty summary of an empty analysis.
\* data.get("tool_calls", 0) and data.get("using_real_data", False) give
\* the defaults for the empty analysis.
ReadLog(p, jsonl) ==
    /\ proc[p].pc = "read"
    /\ LET s == proc[p].session
           evs == read_events(active[s]).events
           d == analyse(evs, PricingModels, EmptyDict, CONTEXT_CAP,
                        SessionTranscript(jsonl))
           r == [proc[p] EXCEPT
                    !.events = evs, !.raw = active[s], !.jsonl = jsonl,
                    !.summary = (d # EmptyData),
                    !.tool_calls = IF d = EmptyData THEN 0 ELSE d.tool_calls,
                    !.real = IF d = EmptyData THEN FALSE
                             ELSE d.using_real_data]
       IN
       /\ s = "unknown" => jsonl = "none"
       /\ proc' = [proc EXCEPT ![p] =
                      IF ArchiveSkipped(evs)
                      THEN Finished(r, Answer(r, FALSE), FALSE)
                      ELSE [r EXCEPT !.pc = "exists"]]
       /\ quiet' = Touch(p, {s})
    /\ UNCHANGED <<active, orphaned, archives, history, last_cost, now>>
    /\ UNCHANGED engineVars

\* _archive_session, lines 546-550: the archive is named by the second
Exists(p) ==
    /\ proc[p].pc = "exists"
    /\ proc' = [proc EXCEPT ![p] =
                   [proc[p] EXCEPT !.ts_str = now,
                        !.pc = IF active[proc[p].session].exists
                               THEN "copy" ELSE "history"]]
    /\ quiet' = Touch(p, {proc[p].session})
    /\ UNCHANGED <<active, orphaned, archives, history, last_cost, now>>
    /\ UNCHANGED engineVars

\* line 551: shutil.copy2(src, archive_path); FileNotFoundError when the
\* log went away since the exists() test
Copy(p) ==
    /\ proc[p].pc = "copy"
    /\ LET s == proc[p].session
           t == proc[p].ts_str
       IN
       IF active[s].exists
       THEN /\ archives' = [a \in DOMAIN archives \cup {t} |->
                               IF a = t THEN active[s].content ELSE archives[a]]
            /\ proc' = [proc EXCEPT ![p] = [proc[p] EXCEPT !.pc = "unlink"]]
       ELSE /\ archives' = archives
            /\ proc' = [proc EXCEPT ![p] =
                           Finished(proc[p], ExceptOutput("stop"), TRUE)]
    /\ quiet' = Touch(p, {proc[p].session})
    /\ UNCHANGED <<active, orphaned, history, last_cost, now>>
    /\ UNCHANGED engineVars

\* line 552: src.unlink(); a descriptor open on the log keeps the file,
\* which no longer has a name
Unlink(p) ==
    /\ proc[p].pc = "unlink"
    /\ LET s == proc[p].session IN
       IF active[s].exists
       THEN /\ active' = [active EXCEPT ![s] = NoFile]
            /\ proc' = [q \in Procs |->
                           IF q = p THEN [proc[p] EXCEPT !.pc = "history"]
                           ELSE IF proc[q].session = s /\ proc[q].fd = "active"
                                THEN [proc[q] EXCEPT !.fd = "gone"]
                           ELSE proc[q]]
       ELSE /\ active' = active
            /\ proc' = [proc EXCEPT ![p] =
                           Finished(proc[p], ExceptOutput("stop"), TRUE)]
    /\ quiet' = Touch(p, {proc[p].session})
    /\ UNCHANGED <<orphaned, archives, history, last_cost, now>>
    /\ UNCHANGED engineVars

HistoryRecord(r) ==
    [date |-> now, session_id |-> r.session, tool_calls |-> r.tool_calls,
     using_real_data |-> r.real, archive |-> r.ts_str]

\* lines 553-564, then mode_stop lines 583-594: the history record is
\* appended and the answer printed: a "block" decision carrying the summary
\* unless the transcript already shows the cost box
History(p, shown) ==
    /\ proc[p].pc = "history"
    /\ proc[p].jsonl = "none" => ~shown
    /\ history' = Append(history, HistoryRecord(proc[p]))
    /\ proc' = [proc EXCEPT ![p] =
                   Finished(proc[p], Answer(proc[p], shown), FALSE)]
    /\ quiet' = Touch(p, {proc[p].session})
    /\ UNCHANGED <<active, orphaned, archives, last_cost, now>>
    /\ UNCHANGED engineVars

\* mode_prompt_inject, lines 597-612
StartInject(p) ==
    /\ CanStart(p)
    /\ proc' = [proc EXCEPT ![p] = NewProc(p, "prompt-inject", "none", "inject")]
    /\ quiet' = [quiet EXCEPT ![p] = TRUE]
    /\ UNCHANGED <<active, orphaned, archives, history, last_cost, now>>
    /\ UNCHANGED engineVars

Inject(p) ==
    /\ proc[p].pc = "inject"
    /\ last_cost' = "absent"
    /\ proc' = [proc EXCEPT ![p] =
                   Finished(proc[p],
                            IF last_cost = "box" THEN <<"systemMessage">>
                            ELSE <<"{}">>, FALSE)]
    /\ UNCHANGED <<active, orphaned, archives, history, now, quiet>>
    /\ UNCHANGED engineVars

\* An operation on a file raises (an OSError on open, write, read, copy,
\* unlink): the exception reaches the except clause of the entry point,
\* lines 690-695.  Nothing of the failed operation reaches the file.
FaultPoints(r) ==
    CASE r.mode \in {"pre", "post"} -> {"open", "write"}
      [] r.mode = "stop" -> {"copy", "unlink", "history"}
                            \cup (IF active[r.session].exists
                                  THEN {"read"} ELSE {})
      [] r.mode = "prompt-inject" -> IF last_cost # "absent"
                                     THEN {"inject"} ELSE {}
      [] OTHER -> {}

Fault(p) ==
    /\ proc[p].pc \in FaultPoints(proc[p])
    /\ proc' = [proc EXCEPT ![p] =
                   Finished(proc[p], ExceptOutput(proc[p].mode), TRUE)]
    /\ quiet' = Touch(p, {proc[p].session})
    /\ UNCHANGED <<active, orphaned, archives, history, last_cost, now>>
    /\ UNCHANGED engineVars

\* time.time() / datetime.now() advance by a second
Tick ==
    /\ now < MaxNow
    /\ now' = now + 1
    /\ UNCHANGED <<active, orphaned, archives, history, last_cost, proc,
                   quiet>>
    /\ UNCHANGED engineVars

\* ... or by more than the retention window
DayPasses ==
    /\ now <= MaxNow
    /\ now' = now + RETENTION + 1
    /\ UNCHANGED <<active, orphaned, archives, history, last_cost, proc,
                   quiet>>
    /\ UNCHANGED engineVars

\* The sessions directory before any invocation runs
SysInit ==
    /\ active = [s \in Sessions |-> NoFile]
    /\ orphaned = [s \in Sessions |-> NoFile]
    /\ archives = <<>>
    /\ history = <<>>
    /\ last_cost = "box"
    /\ now = 0
    /\ proc = [p \in Procs |-> IdleProc]
    /\ quiet = [p \in Procs |-> TRUE]

EngineIdle ==
    /\ events = <<>>
    /\ transcript = NoPath
    /\ data = EmptyData
    /\ matching = <<>>
    /\ paired = <<>>
    /\ model = <<"">>
    /\ models_dict = EmptyDict
    /\ aliases_dict = EmptyDict
    /\ pricing = None
    /\ err = FALSE
    /\ apc = "idle"

\* A log an earlier invocation of mode_pre left behind
EarlierLog(s) == FileOf(<<EvTok(PreEventOf(0, "Read", s), 0), NL>>, 0)

\* The sessions directory when the invocations under study start: each
\* session has no active log, or one holding an earlier event
Init ==
    /\ active \in [Sessions -> {NoFile, EarlierLog("s1"), EarlierLog("unknown")}]
    /\ \A s \in Sessions : active[s].exists => active[s] = EarlierLog(s)
    /\ orphaned = [s \in Sessions |-> NoFile]
    /\ archives = <<>>
    /\ history = <<>>
    /\ last_cost = "box"
    /\ now = 0
    /\ proc = [p \in Procs |-> IdleProc]
    /\ quiet = [p \in Procs |-> TRUE]
    /\ EngineIdle

Appenders ==
    \E p \in Procs :
        \/ \E mode \in {"pre", "post"} : BadPayload(p, mode)
        \/ \E s \in Sessions, t \in PayloadTools : StartPre(p, s, t, FALSE)
        \/ \E s \in Sessions, t \in PayloadTools : StartPost(p, s, t)
        \/ Open(p)
        \/ Write(p)
        \/ Fault(p)

Next ==
    \/ Appenders
    \/ \E p \in Procs, s \in Sessions, t \in PayloadTools :
           StartPre(p, s, t, TRUE)
    \/ \E p \in Procs : Sweep(p)
    \/ \E p \in Procs, s \in Sessions : StartStop(p, s)
    \/ \E p \in Procs, jsonl \in {"none", "file"} : ReadLog(p, jsonl)
    \/ \E p \in Procs : Exists(p)
    \/ \E p \in Procs : Copy(p)
    \/ \E p \in Procs : Unlink(p)
    \/ \E p \in Procs, shown \in BOOLEAN : History(p, shown)
    \/ \E p \in Procs : StartInject(p)
    \/ \E p \in Procs : Inject(p)
    \/ Tick
    \/ DayPasses

Spec == Init /\ [][Next]_vars

\* ... on up to MaxDays days
DaysPass ==
    /\ now < MaxDays * (RETENTION + 1)
    /\ now' = now + RETENTION + 1
    /\ UNCHANGED <<active, orphaned, archives, history, last_cost, proc,
                   quiet>>
    /\ UNCHANGED engineVars

\* Before-call and after-call invocations with the sweep, over several days
NextSweep ==
    \/ Appenders
    \/ \E p \in Procs, s \in Sessions, t \in PayloadTools :
           StartPre(p, s, t, TRUE)
    \/ \E p \in Procs : Sweep(p)
    \/ Tick
    \/ DaysPass

SpecSweep == Init /\ [][NextSweep]_vars

\* Finalize invocations alone, with no file operation failing for a reason
\* outside the program
NextFinalize ==
    \/ \E p \in Procs, s \in Sessions : StartStop(p, s)
    \/ \E p \in Procs, jsonl \in {"none", "file"} : ReadLog(p, jsonl)
    \/ \E p \in Procs : Exists(p)
    \/ \E p \in Procs : Copy(p)
    \/ \E p \in Procs : Unlink(p)
    \/ \E p \in Procs, shown \in BOOLEAN : History(p, shown)
    \/ Tick

SpecFinalize == Init /\ [][NextFinalize]_vars

\* Before-call and after-call invocations alone
NextAppend == Appenders \/ Tick

SpecAppend == Init /\ [][NextAppend]_vars

\* ------------------------------------------- the engine as a state machine
InitPrice ==
    /\ model \in ModelIds \cup {<<"">>}
    /\ models_dict \in Tables
    /\ aliases_dict \in AliasTables
    /\ pricing = None
    /\ events = <<>>
    /\ transcript = NoPath
    /\ data = EmptyData
    /\ matching = <<>>
    /\ paired = <<>>
    /\ err = FALSE
    /\ apc = "ready"
    /\ SysInit

PriceFor ==
    /\ apc = "ready"
    /\ pricing' = price_for(model, models_dict, aliases_dict)
    /\ apc' = "done"
    /\ UNCHANGED <<events, transcript, data, matching, paired, model, models_dict,
                   aliases_dict, err>>
    /\ UNCHANGED sysVars

NextPrice == PriceFor

SpecPrice == InitPrice /\ [][NextPrice]_vars

InitAnalyse ==
    /\ \/ events \in SeqsUpTo(PairEvents, MaxEvents) /\ transcript = NoPath
       \/ events = ScenarioEvents /\ transcript \in Transcripts
    /\ model = <<"">>
    /\ models_dict = PricingModels
    /\ aliases_dict = EmptyDict
    /\ pricing = None
    /\ data = EmptyData
    /\ matching = <<>>
    /\ paired = <<>>
    /\ err = FALSE
    /\ apc = "ready"
    /\ SysInit

Analyse ==
    /\ apc = "ready"
    /\ data' = analyse(events, models_dict, aliases_dict, CONTEXT_CAP, transcript)
    /\ matching' = Pairing(events)
    /\ paired' = Paired(events)
    /\ apc' = "done"
    /\ UNCHANGED <<events, transcript, model, models_dict, aliases_dict,
                   pricing, err>>
    /\ UNCHANGED sysVars

NextAnalyse == Analyse

SpecAnalyse == InitAnalyse /\ [][NextAnalyse]_vars

\* The tokens a log under study is made of: two events, a newline, other
\* whitespace, text that is no JSON value
LogTokens ==
    {EvTok(PreEvent(0, "Read"), 0), EvTok(PostEvent(1, "Read"), 0), NL, WS, JUNK}

LogFiles == {NoFile} \cup {FileOf(c, 0) : c \in SeqsUpTo(LogTokens, MaxLogTokens)}

InitRead ==
    /\ active \in [Sessions -> LogFiles]
    /\ active["unknown"] = NoFile
    /\ orphaned = [s \in Sessions |-> NoFile]
    /\ archives = <<>>
    /\ history = <<>>
    /\ last_cost = "box"
    /\ now = 0
    /\ proc = [p \in Procs |-> IdleProc]
    /\ quiet = [p \in Procs |-> TRUE]
    /\ events = <<>>
    /\ transcript = NoPath
    /\ model = <<"">>
    /\ models_dict = PricingModels
    /\ aliases_dict = EmptyDict
    /\ pricing = None
    /\ data = EmptyData
    /\ matching = <<>>
    /\ paired = <<>>
    /\ err = FALSE
    /\ apc = "ready"

\* mode_stop, lines 574-577: the log of the session is read and analysed; an
\* exception read_events lets through ends the handler before analyse
ReadEvents ==
    /\ apc = "ready"
    /\ LET r == read_events(active["s1"]) IN
       /\ err' = r.raised
       /\ events' = r.events
       /\ data' = IF r.raised THEN EmptyData
                  ELSE analyse(r.events, models_dict, aliases_dict,
                               CONTEXT_CAP, transcript)
       /\ matching' = IF r.raised THEN <<>> ELSE Pairing(r.events)
       /\ paired' = IF r.raised THEN <<>> ELSE Paired(r.events)
    /\ apc' = "done"
    /\ UNCHANGED <<transcript, model, models_dict, aliases_dict, pricing>>
    /\ UNCHANGED sysVars

NextRead == ReadEvents

SpecRead == InitRead /\ [][NextRead]_vars

\* Inputs for the comparison of costs: logs of Read events in any order
\* without a transcript, or the scenario log with a transcript of usage
\* records and blank lines
CostEvents ==
    {PreEvent(ts, "Read") : ts \in 0..MaxTs}
    \cup {PostEvent(ts, "Read") : ts \in 0..MaxTs}

CostLines ==
    {OtherLine("blank")} \cup {UsageLine(r, t) : r \in RequestIds, t \in {1, 2}}

InitCost ==
    /\ \/ events \in SeqsUpTo(CostEvents, MaxEvents) /\ transcript = NoPath
       \/ /\ events = ScenarioEvents
          /\ transcript \in {TranscriptFile(l) : l \in SeqsUpTo(CostLines, MaxLines)}
    /\ model = <<"">>
    /\ models_dict = PricingModels
    /\ aliases_dict = EmptyDict
    /\ pricing = None
    /\ data = EmptyData
    /\ matching = <<>>
    /\ paired = <<>>
    /\ err = FALSE
    /\ apc = "ready"
    /\ SysInit

SpecCost == InitCost /\ [][NextAnalyse]_vars

\* Inputs for the running context counter: up to MaxTurns Read invocations
\* at any timestamps, the input estimated at 100 tokens or at the cap of
\* estimate_tokens, each with or without a response estimated at that cap
Turn(ts, inp, answered) ==
    <<[PreEvent(ts, "Read") EXCEPT !.input_tokens = inp]>>
    \o (IF answered
        THEN <<[PostEvent(ts + 1, "Read")
                   EXCEPT !.response_tokens = MAX_RESPONSE_TOKENS]>>
        ELSE <<>>)

Turns ==
    {Turn(ts, inp, a) :
        ts \in 0..MaxTs, inp \in {100, MAX_RESPONSE_TOKENS}, a \in BOOLEAN}

RECURSIVE Flatten(_)
Flatten(ss) == IF ss = <<>> THEN <<>> ELSE Head(ss) \o Flatten(Tail(ss))

InitContext ==
    /\ events \in {Flatten(t) : t \in SeqsUpTo(Turns, MaxTurns)}
    /\ transcript = NoPath
    /\ model = <<"">>
    /\ models_dict = PricingModels
    /\ aliases_dict = EmptyDict
    /\ pricing = None
    /\ data = EmptyData
    /\ matching = <<>>
    /\ paired = <<>>
    /\ err = FALSE
    /\ apc = "ready"
    /\ SysInit

SpecContext == InitContext /\ [][NextAnalyse]_vars

\* analyse called a second time on the same event list, transcript and
\* pricing tables
Reanalyse ==
    /\ apc = "done"
    /\ data' = analyse(events, models_dict, aliases_dict, CONTEXT_CAP, transcript)
    /\ matching' = Pairing(events)
    /\ paired' = Paired(events)
    /\ apc' = "again"
    /\ UNCHANGED <<events, transcript, model, models_dict, aliases_dict,
                   pricing, err>>
    /\ UNCHANGED sysVars

NextRepeat == Analyse \/ Reanalyse

SpecRepeat == InitAnalyse /\ [][NextRepeat]_vars

\* Inputs for the suggestions: for each of four commands up to MaxRepeats
\* Bash invocations, the commands in any order, with or without a Read of a
\* file estimated at the cap of estimate_tokens
SuggestBases == {"git", "npm", "ls", "make"}

BashEvent(ts, words) == [PreEvent(ts, "Bash") EXCEPT !.command = words]

RunOf(base, n) ==
    [k \in 1..n |-> BashEvent(0, IF k = 1 THEN <<base, "status">> ELSE <<base>>)]

BigRead == [PreEvent(0, "Read") EXCEPT !.input_tokens = MAX_RESPONSE_TOKENS]

SuggestOrders ==
    {o \in [1..Cardinality(SuggestBases) -> SuggestBases] :
        \A i, j \in DOMAIN o : i # j => o[i] # o[j]}

RECURSIVE RunsOf(_, _, _)
RunsOf(order, counts, k) ==
    IF k > Len(order) THEN <<>>
    ELSE RunOf(order[k], counts[order[k]]) \o RunsOf(order, counts, k + 1)

InitSuggest ==
    /\ \E o \in SuggestOrders, c \in [SuggestBases -> 0..MaxRepeats],
          big \in BOOLEAN :
           events = (IF big THEN <<BigRead>> ELSE <<>>) \o RunsOf(o, c, 1)
    /\ transcript = NoPath
    /\ model = <<"">>
    /\ models_dict = PricingModels
    /\ aliases_dict = EmptyDict
    /\ pricing = None
    /\ data = EmptyData
    /\ matching = <<>>
    /\ paired = <<>>
    /\ err = FALSE
    /\ apc = "ready"
    /\ SysInit

SpecSuggest == InitSuggest /\ [][NextAnalyse]_vars

\* ------------------------------------------------------- the history query
\* mcp_server.get_history.  An instant is a number of seconds, a calendar
\* day the number of whole days in it (date[:10] of the ISO text), a cost a
\* number of millionths of a dollar (history records hold round(cost, 6)).
\* A line of history.jsonl is an entry, a blank line, text that is no JSON
\* ("junk"), an entry without date ("nodate") or one whose date is no ISO
\* date ("baddate").
DayOf(t) == t \div RETENTION

HistoryLine(kind, date, total_cost) ==
    [kind |-> kind, date |-> date, total_cost |-> total_cost,
     tool_calls |-> 1, peak_tokens |-> 1500]

\* f"{x:.4f}": the cost in ten-thousandths of a dollar, rounded to nearest
Fmt4(micro) == (micro + 50) \div 100

\* the filter taken by calendar day in place of the instant
InWindowWholeDays(line, cutoff) ==
    line.kind = "entry" /\ DayOf(line.date) >= DayOf(cutoff)

\* lines 84-96: the entries kept; blank lines, JSONDecodeError and
\* ValueError lines and entries without date are passed over
InWindow(line, cutoff) == line.kind = "entry" /\ line.date >= cutoff

\* sorted(by_day.keys(), reverse=True)
RECURSIVE SortedDaysDesc(_)
SortedDaysDesc(S) ==
    IF S = {} THEN <<>>
    ELSE LET m == CHOOSE d \in S : \A e \in S : e <= d
         IN  <<m>> \o SortedDaysDesc(S \ {m})

get_history(lines, clock, days) ==
    LET cutoff == clock - days * RETENTION
        sessions == SelectSeq(lines, LAMBDA l : InWindow(l, cutoff))
        by_day(d) == SelectSeq(sessions, LAMBDA l : DayOf(l.date) = d)
        keys == SortedDaysDesc({DayOf(sessions[i].date) : i \in 1..Len(sessions)})
    IN
    IF sessions = <<>>
    THEN [kind |-> "none", days |-> days, sessions |-> 0, total_cost |-> 0,
          total_calls |-> 0, peak |-> 0, daily |-> <<>>]
    ELSE [kind        |-> "report",
          days        |-> days,
          sessions    |-> Len(sessions),
          total_cost  |-> Fmt4(SumSeq(Field(sessions, "total_cost"))),
          total_calls |-> SumSeq(Field(sessions, "tool_calls")),
          peak        |-> MaxSeq(Field(sessions, "peak_tokens")) \div 1000,
          daily       |-> [k \in 1..Len(keys) |->
                              [day      |-> keys[k],
                               sessions |-> Len(by_day(keys[k])),
                               cost     |-> Fmt4(SumSeq(Field(by_day(keys[k]),
                                                              "total_cost")))]]]

\* Inputs: the clock at midnight or a second after it; entries dated up to
\* MaxHistDays days before the clock, to the second or a second earlier
HistoryNow == {10 * RETENTION, 10 * RETENTION + 1}

HistoryLines(clock) ==
    {HistoryLine(k, 0, 0) : k \in {"blank", "junk", "nodate", "baddate"}}
    \cup {HistoryLine("entry", clock - back * RETENTION - early, c) :
             back \in 0..MaxHistDays, early \in {0, 1}, c \in {49, 120}}

LookBack == {1, 7}

InitHistory ==
    /\ now \in HistoryNow
    /\ history \in SeqsUpTo(HistoryLines(now), MaxHistory)
    /\ active = [s \in Sessions |-> NoFile]
    /\ orphaned = [s \in Sessions |-> NoFile]
    /\ archives = <<>>
    /\ last_cost = "box"
    /\ proc = [p \in Procs |-> IdleProc]
    /\ quiet = [p \in Procs |-> TRUE]
    /\ EngineIdle

\* The MCP tool call get_history(days)
GetHistory(days) ==
    /\ apc = "idle"
    /\ data' = get_history(history, now, days)
    /\ apc' = "done"
    /\ UNCHANGED <<events, transcript, matching, paired, model, models_dict,
                   aliases_dict, pricing, err>>
    /\ UNCHANGED sysVars

NextHistory == \E days \in LookBack : GetHistory(days)

SpecHistory == InitHistory /\ [][NextHistory]_vars

\* ===================================================== claims, the engine

\* C1: after analyse has paired the events, every before event has one
\* entry, a matched after event is an after event of the same tool with a
\* strictly greater timestamp, and no after event is matched to two before
\* events.
C1_PairingOneToOne ==
    apc = "done" =>
        /\ Len(matching) = Len(EventsOfType(events, "pre"))
        /\ \A n \in 1..Len(matching) :
               /\ events[matching[n].pre].type = "pre"
               /\ \A k \in 1..Len(matching) :
                      k # n => matching[k].pre # matching[n].pre
               /\ matching[n].post # 0 =>
                      /\ events[matching[n].post].type = "post"
                      /\ events[matching[n].post].tool
                             = events[matching[n].pre].tool
                      /\ events[matching[n].post].ts
                             > events[matching[n].pre].ts
                      /\ \A k \in 1..Len(matching) :
                             k # n => matching[k].post # matching[n].post

\* Two before events of one tool compete for a single later after event:
\* one takes it, the other stays unmatched.
C1_Witness ==
    /\ apc = "done"
    /\ \E n, k \in 1..Len(matching) :
           /\ matching[n].post # 0
           /\ matching[k].post = 0
           /\ events[matching[k].pre].tool = events[matching[n].post].tool
           /\ events[matching[k].pre].ts < events[matching[n].post].ts

\* The usage lines of a transcript that repeat the request identifier of an
\* earlier usage line, by position
RepeatsEarlierId(lines, i) ==
    /\ lines[i].kind = "usage"
    /\ lines[i].requestId \in RequestIds
    /\ \E j \in 1..(i - 1) :
           lines[j].kind = "usage" /\ lines[j].requestId = lines[i].requestId

WithoutRepeats(lines) ==
    LET keep == {i \in 1..Len(lines) : ~RepeatsEarlierId(lines, i)}
        idx == SelectSeq([i \in 1..Len(lines) |-> i], LAMBDA i : i \in keep)
    IN  [n \in 1..Len(idx) |-> lines[idx[n]]]

FirstOfId(lines) ==
    {i \in 1..Len(lines) :
        lines[i].kind = "usage" /\ ~RepeatsEarlierId(lines, i)}

RECURSIVE SumOver(_, _, _)
SumOver(lines, S, f) ==
    IF S = {} THEN 0
    ELSE LET i == CHOOSE i \in S : TRUE
         IN  lines[i][f] + SumOver(lines, S \ {i}, f)

AllUsageCarryId(lines) ==
    \A i \in 1..Len(lines) :
        lines[i].kind = "usage" => lines[i].requestId \in RequestIds

\* C2: the result of analysing a transcript equals the result for the
\* transcript with every repeat of an already-seen request identifier
\* removed; when every usage record carries an identifier, the API-call
\* count is the number of distinct identifiers and the four sums are the
\* sums over the first record of each identifier.
C2_FirstPerRequestId ==
    (apc = "done" /\ transcript.path = "file") =>
        LET lines == transcript.lines IN
        /\ data = analyse(events, models_dict, aliases_dict, CONTEXT_CAP,
                          TranscriptFile(WithoutRepeats(lines)))
        /\ (data.using_real_data /\ AllUsageCarryId(lines)) =>
               /\ data.api_calls = Cardinality(FirstOfId(lines))
               /\ data.api_calls
                      = Cardinality({lines[i].requestId : i \in FirstOfId(lines)})
               /\ data.inp_tok = SumOver(lines, FirstOfId(lines), "input")
               /\ data.out_tok = SumOver(lines, FirstOfId(lines), "output")
               /\ data.cc_tok = SumOver(lines, FirstOfId(lines), "cc")
               /\ data.cr_tok = SumOver(lines, FirstOfId(lines), "cr")

\* Three usage records with id r1 and one with id r2: 2 retained records,
\* authoritative mode.
C2_Witness ==
    /\ apc = "done"
    /\ transcript.path = "file"
    /\ Len(transcript.lines) = 4
    /\ Cardinality({i \in 1..4 : transcript.lines[i].kind = "usage"
                                 /\ transcript.lines[i].requestId = "r1"}) = 3
    /\ Cardinality({i \in 1..4 : transcript.lines[i].kind = "usage"
                                 /\ transcript.lines[i].requestId = "r2"}) = 1
    /\ data.using_real_data
    /\ data.api_calls = 2

ExactHit == model \in DOMAIN models_dict
AliasHit ==
    /\ model \in DOMAIN aliases_dict
    /\ aliases_dict[model] \in DOMAIN models_dict
PrefixHits ==
    {e \in 3..Len(model) : SubSeq(model, 1, e) \in DOMAIN models_dict}

\* C3: price_for returns the exact entry when there is one; else the
\* alias's entry when the alias resolves; else the entry of a matching
\* prefix; and the fallback card exactly when none of the three resolves.
C3_Precedence ==
    apc = "done" =>
        /\ ExactHit => pricing = models_dict[model]
        /\ (~ExactHit /\ AliasHit) => pricing = models_dict[aliases_dict[model]]
        /\ (~ExactHit /\ ~AliasHit /\ PrefixHits # {}) =>
               \E e \in PrefixHits : pricing = models_dict[SubSeq(model, 1, e)]
        /\ (pricing = FALLBACK_PRICING)
               <=> (~ExactHit /\ ~AliasHit /\ PrefixHits = {})

\* The identifier is a key, an alias of another key, and has a prefix that
\* is a key: the exact entry is returned.
C3_Witness ==
    /\ apc = "done"
    /\ ExactHit
    /\ AliasHit
    /\ aliases_dict[model] # model
    /\ \E e \in PrefixHits : e < Len(model)
    /\ pricing = models_dict[model]
    /\ pricing # models_dict[aliases_dict[model]]

RaisingLine(lines) == \E i \in 1..Len(lines) : lines[i].kind = "nonobject"
HasUsageLine(lines) == \E i \in 1..Len(lines) : lines[i].kind = "usage"

\* C10: a non-empty analysis reports using_real_data exactly when a
\* transcript is given, reading it raises nothing and it holds a usage
\* record; the authoritative result then carries the transcript's token
\* sums and one timeline entry per API call, and a degraded result carries
\* no transcript figure at all: zero token sums, one API call and one
\* timeline entry per before event, and the estimated cost.
C10_ModeMatchesData ==
    (apc = "done" /\ data # EmptyData) =>
        LET lines == transcript.lines
            authoritative == /\ transcript.path = "file"
                             /\ ~RaisingLine(lines)
                             /\ HasUsageLine(lines)
            pres == Len(EventsOfType(events, "pre"))
        IN
        /\ data.using_real_data <=> authoritative
        /\ data.using_real_data =>
               /\ data.inp_tok > 0
               /\ data.api_calls >= 1
               /\ Len(data.context_timeline) = data.api_calls
               /\ SumSeq(Field(data.context_timeline, "tokens"))
                      = data.inp_tok + data.cc_tok + data.cr_tok
               /\ data.total_cost
                      = data.inp_tok * data.pricing.input
                        + data.out_tok * data.pricing.output
                        + data.cc_tok * CacheCreationRate(data.pricing)
                        + data.cr_tok * CacheReadRate(data.pricing)
        /\ ~data.using_real_data =>
               /\ data.inp_tok = 0 /\ data.out_tok = 0
               /\ data.cc_tok = 0 /\ data.cr_tok = 0
               /\ data.api_calls = pres
               /\ Len(data.context_timeline) = pres
               /\ data.total_cost
                      = DegradedCost(SortedByTs(Paired(events)), data.pricing)

\* A transcript that holds a usage record and then a line that raises:
\* the analysis is degraded, not a partial authoritative one.
C10_Witness ==
    /\ apc = "done"
    /\ data # EmptyData
    /\ transcript.path = "file"
    /\ \E i, j \in 1..Len(transcript.lines) :
           /\ i < j
           /\ transcript.lines[i].kind = "usage"
           /\ transcript.lines[j].kind = "nonobject"
    /\ ~data.using_real_data
    /\ data.inp_tok = 0

\* ================================================ claims, the lifecycle

\* C4: a before-call or after-call invocation prints nothing while it runs
\* and, once it has ended, has printed exactly one "{}" and exited with
\* status 0, whether the payload was unparsable, the append succeeded or
\* the append raised.
C4_AppendNeverFailsCaller ==
    \A p \in Procs :
        proc[p].mode \in {"pre", "post"} =>
            /\ proc[p].pc # "done" => proc[p].out = <<>>
            /\ proc[p].pc = "done" =>
                   proc[p].out = <<"{}">> /\ proc[p].exit = "0"

\* An append that raised, answered with "{}" and status 0
C4_Witness ==
    \E p \in Procs :
        /\ proc[p].mode \in {"pre", "post"}
        /\ proc[p].pc = "done"
        /\ proc[p].faulted
        /\ proc[p].out = <<"{}">>
        /\ proc[p].exit = "0"

\* C5 as stated: every handler in which an exception reached the entry
\* point has printed the empty acknowledgment and exited with status 0.
C5_EveryHandlerAcknowledges ==
    \A p \in Procs :
        (proc[p].pc = "done" /\ proc[p].faulted) =>
            proc[p].out = <<"{}">> /\ proc[p].exit = "0"

\* C5 amended: every handler in which an exception reached the entry point
\* exits with status 0; a before-call or after-call handler has printed the
\* empty acknowledgment, a finalize or prompt-setup handler has printed
\* nothing (so never a block decision).
C5_FaultNeverSurfaces ==
    \A p \in Procs :
        (proc[p].pc = "done" /\ proc[p].faulted) =>
            /\ proc[p].exit = "0"
            /\ proc[p].mode \in {"pre", "post"} => proc[p].out = <<"{}">>
            /\ proc[p].mode \in {"stop", "prompt-inject"} => proc[p].out = <<>>

\* A finalize and a prompt-setup in which an exception reached the entry
\* point: status 0, nothing printed
C5_Witness ==
    \E p, q \in Procs :
        /\ proc[p].mode = "stop" /\ proc[q].mode = "prompt-inject"
        /\ proc[p].pc = "done" /\ proc[q].pc = "done"
        /\ proc[p].faulted /\ proc[q].faulted
        /\ proc[p].out = <<>> /\ proc[q].out = <<>>
        /\ proc[p].exit = "0" /\ proc[q].exit = "0"

RecordsOf(h, s) == SelectSeq(h, LAMBDA r : r.session_id = s)

\* C6: when a finalize that read a log with at least one event, and whose
\* session no other invocation touched, takes its last step, the active log
\* is gone, the archive file it named holds the content the log had, the
\* history holds one more record of the session than when it started, and
\* the earlier history records are unchanged.
C6_FinalizeArchives ==
    [][\A p \in Procs :
          (/\ proc[p].mode = "stop"
           /\ proc[p].pc = "history"
           /\ proc'[p].pc = "done"
           /\ ~proc'[p].faulted
           /\ proc[p].raw.exists
           /\ proc[p].events # <<>>
           /\ quiet'[p])
          => /\ ~active'[proc[p].session].exists
             /\ proc[p].ts_str \in DOMAIN archives'
             /\ archives'[proc[p].ts_str] = proc[p].raw.content
             /\ Len(RecordsOf(history', proc[p].session)) = proc[p].hist0 + 1
             /\ SubSeq(history', 1, Len(history)) = history]_vars

\* C7: a finalize that finds no active log ends at once with the empty
\* acknowledgment and status 0, no exception, and leaves the history log,
\* the archive files and the active logs as they were.
C7_FinalizeMissingLog ==
    [][\A p \in Procs :
          (/\ proc[p].mode = "stop"
           /\ proc[p].pc = "read"
           /\ ~active[proc[p].session].exists
           /\ proc'[p] # proc[p])
          => /\ proc'[p].pc = "done"
             /\ proc'[p].out = <<"{}">>
             /\ proc'[p].exit = "0"
             /\ ~proc'[p].faulted
             /\ history' = history
             /\ archives' = archives
             /\ active' = active]_vars

\* Two finalize signals in sequence: the second started after the first had
\* archived the session, found no log, and the history still holds the one
\* record.
C7_Witness ==
    \E p, q \in Procs :
        /\ p # q
        /\ proc[p].mode = "stop" /\ proc[q].mode = "stop"
        /\ proc[p].session = proc[q].session
        /\ proc[p].pc = "done" /\ proc[q].pc = "done"
        /\ ~proc[p].faulted /\ ~proc[q].faulted
        /\ proc[p].hist0 = 0 /\ proc[q].hist0 = 1
        /\ proc[q].out = <<"{}">>
        /\ Len(RecordsOf(history, proc[p].session)) = 1
        /\ ~active[proc[p].session].exists

CompleteRecords(content) ==
    /\ Len(content) % 2 = 0
    /\ \A i \in 1..Len(content) :
           content[i].k = (IF i % 2 = 1 THEN "ev" ELSE "nl")

NonWs(line) == SelectSeq(line, LAMBDA t : t.k # "ws")

\* A line that holds one event record and, around it, whitespace only
WellFormed(line) == Len(NonWs(line)) = 1 /\ NonWs(line)[1].k = "ev"

RECURSIVE EventsOfLines(_)
EventsOfLines(lines) ==
    IF lines = <<>> THEN <<>>
    ELSE (IF WellFormed(Head(lines)) THEN <<NonWs(Head(lines))[1].ev>> ELSE <<>>)
         \o EventsOfLines(Tail(lines))

RECURSIVE JoinLines(_)
JoinLines(lines) ==
    IF lines = <<>> THEN <<>>
    ELSE (IF WellFormed(Head(lines)) THEN Append(Head(lines), NL) ELSE <<>>)
         \o JoinLines(Tail(lines))

\* The log with its blank and unparsable lines removed
CleanedLog(file) ==
    IF ~file.exists THEN file
    ELSE FileOf(JoinLines(SplitLines(file.content, <<>>)), file.mtime)

\* C9: reading and analysing a log made of event records, blank lines and
\* lines that fail to parse raises nothing; the events read are those of the
\* well-formed lines, in order; events and analysis equal those of the log
\* with the blank and unparsable lines removed; a missing log gives the
\* empty event sequence.
C9_MalformedLinesSkipped ==
    apc = "done" =>
        LET f == active["s1"]
            cleaned == read_events(CleanedLog(f))
        IN
        /\ ~err
        /\ ~cleaned.raised
        /\ ~f.exists => events = <<>>
        /\ f.exists => events = EventsOfLines(SplitLines(f.content, <<>>))
        /\ events = cleaned.events
        /\ data = analyse(cleaned.events, models_dict, aliases_dict,
                          CONTEXT_CAP, transcript)

\* A log with an unparsable line, a blank line and an event record, read
\* and analysed
C9_Witness ==
    /\ apc = "done"
    /\ ~err
    /\ active["s1"].exists
    /\ \E i \in 1..Len(active["s1"].content) : active["s1"].content[i].k = "junk"
    /\ \E i \in 1..Len(SplitLines(active["s1"].content, <<>>)) :
           Strip(SplitLines(active["s1"].content, <<>>)[i]) = <<>>
    /\ events # <<>>
    /\ data # EmptyData
    /\ CleanedLog(active["s1"]) # active["s1"]

\* The pool when the n-th before event is processed: the after events of
\* its tool that no earlier before event took
PoolAt(n) ==
    {j \in 1..Len(events) :
        /\ events[j].type = "post"
        /\ events[j].tool = events[matching[n].pre].tool
        /\ \A k \in 1..(n - 1) : matching[k].post # j}

\* Those of the pool with a timestamp greater than the before event's
LaterInPool(n) ==
    {j \in PoolAt(n) : events[j].ts > events[matching[n].pre].ts}

\* C11: the after event taken for a before event has the least timestamp
\* among the after events of the same tool still in the pool whose
\* timestamp exceeds the before event's, whatever the order of the after
\* events in the log; the elapsed time is the difference of the timestamps.
C11_EarliestAfterSelected ==
    apc = "done" =>
        \A n \in 1..Len(matching) :
            matching[n].post # 0 =>
                /\ matching[n].post \in LaterInPool(n)
                /\ \A j \in LaterInPool(n) :
                       events[matching[n].post].ts <= events[j].ts
                /\ paired[n].elapsed_s
                       = events[matching[n].post].ts - events[matching[n].pre].ts

\* C12: paired has one record per before event, in the order of the before
\* events; a record has elapsed time 0 and response size 0 exactly when the
\* pool held no after event of its tool with a greater timestamp, and a
\* positive elapsed time otherwise.
C12_OnePerBeforeEvent ==
    apc = "done" =>
        /\ Len(paired) = Len(EventsOfType(events, "pre"))
        /\ Len(matching) = Len(paired)
        /\ \A n \in 1..Len(paired) :
               /\ matching[n].pre = EventsOfType(events, "pre")[n]
               /\ paired[n].tool = events[matching[n].pre].tool
               /\ paired[n].ts = events[matching[n].pre].ts
               /\ (paired[n].elapsed_s = 0 /\ paired[n].response_tokens = 0)
                      <=> LaterInPool(n) = {}
               /\ LaterInPool(n) # {} => paired[n].elapsed_s > 0

\* Two before events of one tool, the first takes the only later after
\* event, the second is left without a match
C12_Witness ==
    /\ apc = "done"
    /\ Len(paired) >= 2
    /\ \E n, k \in 1..Len(paired) :
           /\ n < k
           /\ paired[n].tool = paired[k].tool
           /\ paired[n].elapsed_s > 0
           /\ paired[k].elapsed_s = 0 /\ paired[k].response_tokens = 0
           /\ LaterInPool(k) = {}
           /\ events[matching[n].post].ts > paired[k].ts

LongestPrefixHit == CHOOSE e \in PrefixHits : \A f \in PrefixHits : f <= e

\* C13: when neither the identifier nor its alias is a key of the table,
\* price_for returns the entry of the longest prefix of at least 3 segments
\* that is a key, and the fallback card when no such prefix is a key (a
\* matching prefix of 1 or 2 segments does not count).
C13_LongestPrefix ==
    (apc = "done" /\ ~ExactHit /\ ~AliasHit) =>
        /\ PrefixHits # {} =>
               pricing = models_dict[SubSeq(model, 1, LongestPrefixHit)]
        /\ PrefixHits = {} => pricing = FALLBACK_PRICING

\* "claude-sonnet-4-5-20250929" with "claude-sonnet-4-5", "claude-sonnet-4"
\* and "claude-sonnet" in the table resolves to the "claude-sonnet-4-5" entry
C13_Witness ==
    /\ apc = "done"
    /\ model = Dated
    /\ ~ExactHit /\ ~AliasHit
    /\ {Sonnet45, Sonnet4, ClaudeSonnet} \subseteq DOMAIN models_dict
    /\ pricing = CardOf(Sonnet45)
    /\ pricing # FALLBACK_PRICING

\* The amounts a token count is raised by
Deltas == {1, 50}

\* The transcript with one token count of its i-th line raised
RaisedLine(jsonl, i, f, by) ==
    [jsonl EXCEPT !.lines[i][f] = @ + by]

\* The event log with one estimated size of its i-th event raised
RaisedEvent(evs, i, f, by) == [evs EXCEPT ![i][f] = @ + by]

CostOf(evs, jsonl) ==
    analyse(evs, models_dict, aliases_dict, CONTEXT_CAP, jsonl).total_cost

\* C14: the total cost is non-negative, and raising one token count of one
\* usage record of the transcript (input, output, cache creation, cache
\* read), or one estimated size of one event of the log (input size,
\* response size), never lowers it.
C14_CostMonotone ==
    (apc = "done" /\ data # EmptyData) =>
        /\ data.total_cost >= 0
        /\ data.total_cost = CostOf(events, transcript)
        /\ \A i \in 1..Len(transcript.lines), by \in Deltas :
           \A f \in {"input", "output", "cc", "cr"} :
               transcript.lines[i].kind = "usage" =>
                   CostOf(events, RaisedLine(transcript, i, f, by))
                       >= data.total_cost
        /\ \A i \in 1..Len(events), by \in Deltas :
           \A f \in {"input_tokens", "response_tokens"} :
               CostOf(RaisedEvent(events, i, f, by), transcript)
                   >= data.total_cost

\* Authoritative mode with a positive cost that raising a cache-read count
\* raises
C14_Witness ==
    /\ apc = "done" /\ data # EmptyData
    /\ data.using_real_data
    /\ data.total_cost > 0
    /\ \E i \in 1..Len(transcript.lines) :
           /\ transcript.lines[i].kind = "usage"
           /\ CostOf(events, RaisedLine(transcript, i, "cr", 50)) > data.total_cost

\* Degraded mode with a positive cost that raising a response size raises
C14_WitnessDegraded ==
    /\ apc = "done" /\ data # EmptyData
    /\ ~data.using_real_data
    /\ data.total_cost > 0
    /\ \E i \in 1..Len(events) :
           CostOf(RaisedEvent(events, i, "response_tokens", 1), transcript)
               > data.total_cost

\* The usage records the extractor retains, by position in the file: those
\* with no earlier usage record of the same requestId value
Retained(lines) ==
    SelectSeq([i \in 1..Len(lines) |-> i],
              LAMBDA i : /\ lines[i].kind = "usage"
                         /\ \A j \in 1..(i - 1) :
                                lines[j].kind = "usage"
                                    => lines[j].requestId # lines[i].requestId)

TimelineTokens == {data.context_timeline[i].tokens :
                      i \in 1..Len(data.context_timeline)}

\* C15: the peak context size is the greatest size of the context timeline,
\* 0 for the empty timeline; in authoritative mode the timeline has one
\* entry per retained usage record, in file order, and its size is the
\* record's input + cache-creation + cache-read tokens.
C15_PeakIsTimelineMax ==
    (apc = "done" /\ data # EmptyData) =>
        /\ TimelineTokens = {} => data.peak_tokens = 0
        /\ TimelineTokens # {} =>
               /\ data.peak_tokens \in TimelineTokens
               /\ \A t \in TimelineTokens : t <= data.peak_tokens
        /\ data.using_real_data =>
               LET kept == Retained(transcript.lines) IN
               /\ Len(data.context_timeline) = Len(kept)
               /\ \A n \in 1..Len(kept) :
                      data.context_timeline[n].tokens
                          = transcript.lines[kept[n]].input
                            + transcript.lines[kept[n]].cc
                            + transcript.lines[kept[n]].cr

\* Authoritative mode, a repeated record dropped, two retained records of
\* which the first is the larger: the peak is the first entry
C15_Witness ==
    /\ apc = "done" /\ data # EmptyData
    /\ data.using_real_data
    /\ Len(data.context_timeline) = 2
    /\ Len(Retained(transcript.lines)) < Len(transcript.lines)
    /\ data.context_timeline[1].tokens > data.context_timeline[2].tokens
    /\ data.peak_tokens = data.context_timeline[1].tokens

\* Degraded mode, a log without before events: empty timeline, peak 0
C15_WitnessEmptyTimeline ==
    /\ apc = "done" /\ data # EmptyData
    /\ ~data.using_real_data
    /\ data.context_timeline = <<>>
    /\ data.peak_tokens = 0

C16_WitnessAuthoritative ==
    /\ apc = "again"
    /\ data # EmptyData
    /\ data.using_real_data
    /\ data.api_calls >= 2

\* The index (from 0) of the n-th paired invocation in timestamp order,
\* earlier log position first among equal timestamps
RankByTs(n) ==
    Cardinality({k \in 1..Len(paired) :
                    \/ paired[k].ts < paired[n].ts
                    \/ paired[k].ts = paired[n].ts /\ k < n})

\* C17: in degraded mode the total cost is the sum over the T paired
\* invocations, indexed i = 0..T-1 in timestamp order, of response size x
\* input rate x (T - i) + response size x output rate; the log of one
\* matched Read (before at 0, after at 2, response size 50) gives one
\* invocation, elapsed 2, category "Reading files", cost 50 x (input rate +
\* output rate).  Costs are in rate units (per million tokens) x tokens.
C17_DegradedCostFormula ==
    (apc = "done" /\ data # EmptyData /\ ~data.using_real_data) =>
        LET T == Len(paired) IN
        /\ data.total_cost
               = SumSeq([n \in 1..T |->
                    paired[n].response_tokens * data.pricing.input
                        * (T - RankByTs(n))
                    + paired[n].response_tokens * data.pricing.output])
        /\ \A n \in 1..T : RankByTs(n) = T - 1 => T - RankByTs(n) = 1
        /\ events = ScenarioEvents =>
               /\ T = 1
               /\ data.tool_calls = 1
               /\ paired[1].elapsed_s = 2
               /\ paired[1].category = "Reading files"
               /\ paired[1].response_tokens = 50
               /\ data.total_cost
                      = 50 * (data.pricing.input + data.pricing.output)

\* Two before events out of timestamp order; the one matched is the first
\* in timestamp order, so its turns_remaining is 2
C17_Witness ==
    /\ apc = "done" /\ data # EmptyData /\ ~data.using_real_data
    /\ Len(paired) = 2
    /\ paired[1].ts > paired[2].ts
    /\ paired[2].response_tokens > 0
    /\ paired[1].response_tokens = 0
    /\ data.total_cost
           = paired[2].response_tokens
                 * (2 * data.pricing.input + data.pricing.output)

\* The scenario of the single matched Read
C17_WitnessScenario ==
    /\ apc = "done"
    /\ events = ScenarioEvents
    /\ ~data.using_real_data
    /\ data.total_cost = 50 * (300 + 1500)

IsPrefix(a, b) == Len(a) <= Len(b) /\ SubSeq(b, 1, Len(a)) = a

\* C18: a sweep moves into the quarantine area exactly the active logs last
\* modified more than 24 hours ago and leaves the others as they are; and
\* no step of an append or a sweep loses quarantined content: a log in the
\* quarantine area stays there, with at least the content it had.
C18_SweepKeepsContent ==
    [][/\ (\E p \in Procs : proc[p].pc = "sweep" /\ proc'[p].pc # "sweep") =>
              \A s \in Sessions :
                  IF active[s].exists /\ now - active[s].mtime > 86400
                  THEN /\ ~active'[s].exists
                       /\ orphaned'[s].exists
                       /\ orphaned'[s].content = active[s].content
                  ELSE active'[s] = active[s]
       /\ \A s \in Sessions :
              orphaned[s].exists =>
                  /\ orphaned'[s].exists
                  /\ IsPrefix(orphaned[s].content, orphaned'[s].content)]_vars

\* How often a Bash before event with first word c is in the log
TimesRun(c) ==
    Cardinality({i \in 1..Len(events) :
                    /\ events[i].type = "pre"
                    /\ events[i].tool = "Bash"
                    /\ events[i].command # NoCommand
                    /\ events[i].command[1] = c})

RepeatedCommands == {c \in SuggestBases : TimesRun(c) > 2}

\* C19: the suggestion list of a non-empty analysis has 1 to 3 entries; the
\* repeated-command entries (each for a command run more than twice, with
\* its count, none twice, by non-increasing count) come before the
\* peak-context entry (present only when the peak exceeds 50,000); and the
\* list is the single generic message exactly when no command ran more
\* than twice and the peak does not exceed 50,000.
C19_SuggestionList ==
    (apc = "done" /\ data # EmptyData) =>
        LET sg == data.suggestions IN
        /\ Len(sg) \in 1..3
        /\ sg = <<Generic>>
               <=> (RepeatedCommands = {} /\ ~(data.peak_tokens > 50000))
        /\ \A i \in 1..Len(sg) :
               /\ sg[i].rule = "none" => sg = <<Generic>>
               /\ sg[i].rule = "repeat" =>
                      /\ sg[i].cmd \in RepeatedCommands
                      /\ sg[i].n = TimesRun(sg[i].cmd)
               /\ sg[i].rule = "peak" =>
                      /\ data.peak_tokens > 50000
                      /\ sg[i].n = data.peak_tokens \div 1000
        /\ \A i, j \in 1..Len(sg) :
               i < j =>
                   /\ sg[j].rule = "repeat" =>
                          /\ sg[i].rule = "repeat"
                          /\ sg[i].cmd # sg[j].cmd
                          /\ sg[i].n >= sg[j].n
                   /\ ~(sg[i].rule = "peak" /\ sg[j].rule = "peak")

\* Two commands run three times and a peak above 50,000: two
\* repeated-command entries, then the peak entry
C19_Witness ==
    /\ apc = "done" /\ data # EmptyData
    /\ Cardinality(RepeatedCommands) = 2
    /\ Len(data.suggestions) = 3
    /\ data.suggestions[1].rule = "repeat"
    /\ data.suggestions[2].rule = "repeat"
    /\ data.suggestions[3].rule = "peak"

\* No rule triggers: the generic message alone
C19_WitnessGeneric ==
    /\ apc = "done" /\ data # EmptyData
    /\ \E c \in SuggestBases : TimesRun(c) = 2
    /\ data.suggestions = <<Generic>>

\* The positions of the history entries inside the look-back window
InWindowEntries ==
    {i \in 1..Len(history) :
        /\ history[i].kind = "entry"
        /\ history[i].date >= now - data.days * 86400}

EntriesOfDay(d) == {i \in InWindowEntries : history[i].date \div 86400 = d}

RECURSIVE CostSum(_)
CostSum(S) ==
    IF S = {} THEN 0
    ELSE LET i == CHOOSE i \in S : TRUE
         IN  history[i].total_cost + CostSum(S \ {i})

DailySessions == SumSeq([k \in 1..Len(data.daily) |-> data.daily[k].sessions])
DailyCost == SumSeq([k \in 1..Len(data.daily) |-> data.daily[k].cost])

\* What C20 and its amended form share: the daily breakdown lists exactly
\* the days with an entry inside the window, most recent first, each with
\* the count and the (reported, rounded) cost sum of its in-window entries,
\* and the counts add up to the reported session total.
DailyBreakdownExact ==
    /\ data.kind = "none" <=> InWindowEntries = {}
    /\ {data.daily[k].day : k \in 1..Len(data.daily)}
           = {history[i].date \div 86400 : i \in InWindowEntries}
    /\ \A k \in 1..Len(data.daily) :
           /\ data.daily[k].sessions = Cardinality(EntriesOfDay(data.daily[k].day))
           /\ data.daily[k].cost = Fmt4(CostSum(EntriesOfDay(data.daily[k].day)))
    /\ \A j, k \in 1..Len(data.daily) :
           j < k => data.daily[j].day > data.daily[k].day
    /\ data.sessions = Cardinality(InWindowEntries)
    /\ DailySessions = data.sessions

\* C20 as stated: ... and the reported per-day costs add up to the reported
\* total cost.
C20_DailyBreakdown ==
    apc = "done" =>
        /\ DailyBreakdownExact
        /\ DailyCost = data.total_cost

\* C20 amended: ... and the reported total cost is the rounded sum of the
\* costs of all in-window entries, from which the sum of the reported
\* per-day costs differs by less than one unit of the last reported digit
\* (a ten-thousandth of a dollar) per listed day.
C20_DailyBreakdownRounded ==
    apc = "done" =>
        /\ DailyBreakdownExact
        /\ data.total_cost = Fmt4(CostSum(InWindowEntries))
        /\ DailyCost - data.total_cost <= Len(data.daily)
        /\ data.total_cost - DailyCost <= Len(data.daily)

\* Entries on two days inside the window, one entry outside it, and
\* per-day costs that each round down while their total rounds up
C20_Witness ==
    /\ apc = "done"
    /\ data.kind = "report"
    /\ Len(data.daily) = 2
    /\ \E i \in 1..Len(history) :
           history[i].kind = "entry" /\ i \notin InWindowEntries
    /\ DailyCost # data.total_cost

\* Sessions on 3 distinct days within a 7-day window
C20_WitnessThreeDays ==
    /\ apc = "done"
    /\ data.kind = "report"
    /\ data.days = 7
    /\ Len(data.daily) = 3
    /\ data.sessions = 3

\* C21: deduplication applies only to usage records that carry a request
\* identifier: in authoritative mode the API-call count, the four token
\* sums and the length of the context timeline count every usage record
\* without identifier and the first record of each identifier.
C21_IdlessRecordsRetained ==
    (apc = "done" /\ transcript.path = "file" /\ data # EmptyData) =>
        (data.using_real_data =>
            LET lines == transcript.lines
                kept == FirstOfId(lines) IN
            /\ data.api_calls = Cardinality(kept)
            /\ data.inp_tok = SumOver(lines, kept, "input")
            /\ data.out_tok = SumOver(lines, kept, "output")
            /\ data.cc_tok = SumOver(lines, kept, "cc")
            /\ data.cr_tok = SumOver(lines, kept, "cr")
            /\ Len(data.context_timeline) = Cardinality(kept))

\* The paired invocation standing at place i (from 1) in timestamp order
AtRank(i) == paired[CHOOSE n \in 1..Len(paired) : RankByTs(n) = i - 1]

\* C22: in degraded mode the context timeline follows the invocations in
\* timestamp order; every value is at most the context-window cap, the
\* values never decrease, each value is min(previous value + input
\* estimate + output estimate of its invocation, cap), and the peak is at
\* most the cap.
C22_TimelineCapped ==
    (apc = "done" /\ data # EmptyData /\ ~data.using_real_data) =>
        LET tl == data.context_timeline IN
        /\ Len(tl) = Len(paired)
        /\ \A i \in 1..Len(tl) :
               /\ tl[i].ts = AtRank(i).ts
               /\ tl[i].tokens <= CONTEXT_CAP
               /\ tl[i].tokens
                      = Min((IF i = 1 THEN 0 ELSE tl[i - 1].tokens)
                                + AtRank(i).input_tokens
                                + AtRank(i).response_tokens,
                            CONTEXT_CAP)
               /\ i > 1 => /\ tl[i - 1].tokens <= tl[i].tokens
                           /\ tl[i - 1].ts <= tl[i].ts
        /\ data.peak_tokens <= CONTEXT_CAP

\* Three invocations logged out of timestamp order whose estimates add up
\* to more than the cap: the counter reaches the cap and stays there
C22_Witness ==
    /\ apc = "done" /\ data # EmptyData /\ ~data.using_real_data
    /\ Len(paired) = 3
    /\ paired[1].ts > paired[3].ts
    /\ SumSeq([n \in 1..3 |-> paired[n].input_tokens + paired[n].response_tokens])
           > CONTEXT_CAP
    /\ data.context_timeline[1].tokens < CONTEXT_CAP
    /\ data.context_timeline[3].tokens = CONTEXT_CAP
    /\ data.peak_tokens = CONTEXT_CAP

\* C23: whenever the peak context size exceeds 50,000 tokens, the
\* suggestion list holds the suggestion to split the session, whatever
\* commands were repeated.
C23_SplitSuggested ==
    (apc = "done" /\ data # EmptyData) =>
        (data.peak_tokens > 50000 =>
            \E i \in 1..Len(data.suggestions) : data.suggestions[i].rule = "peak")

\* The event that invocation p appended stands in the content
HoldsEventOf(content, p) ==
    \E i \in 1..Len(content) : content[i].k = "ev" /\ content[i].by = p

\* C24: once a before-call or after-call invocation has completed its
\* append and a finalize of the same session has ended, the appended event
\* is in the session's active log or in an archive file.
C24_NoEventLost ==
    \A p, q \in Procs :
        (/\ proc[p].mode \in {"pre", "post"}
         /\ proc[p].pc = "done"
         /\ ~proc[p].faulted
         /\ proc[p].session \in Sessions
         /\ proc[q].mode = "stop"
         /\ proc[q].pc = "done"
         /\ proc[q].session = proc[p].session)
        => \/ HoldsEventOf(active[proc[p].session].content, p)
           \/ \E a \in DOMAIN archives : HoldsEventOf(archives[a], p)

\* C25: when two finalize invocations of the same session have both ended,
\* neither has failed, the history holds at most one record of the session
\* (one active log existed), and the archive every such record names
\* exists and holds the content of that log.
C25_ConcurrentFinalize ==
    \A p, q \in Procs :
        (/\ p # q
         /\ proc[p].mode = "stop" /\ proc[q].mode = "stop"
         /\ proc[p].pc = "done" /\ proc[q].pc = "done"
         /\ proc[p].session = proc[q].session)
        => LET s == proc[p].session
               recs == RecordsOf(history, s) IN
           /\ ~proc[p].faulted /\ ~proc[q].faulted
           /\ Len(recs) <= 1
           /\ \A n \in 1..Len(recs) :
                  /\ recs[n].archive \in DOMAIN archives
                  /\ archives[recs[n].archive] = EarlierLog(s).content

\* C26: no step changes an archive file that exists: every archive file
\* keeps its content for good, and the archive every history record names
\* holds events of that record's session only.
C26_ArchiveNeverOverwritten ==
    [][/\ \A a \in DOMAIN archives :
              a \in DOMAIN archives' /\ archives'[a] = archives[a]
       /\ \A n \in 1..Len(history') :
              history'[n].archive \in DOMAIN archives' =>
                  \A i \in 1..Len(archives'[history'[n].archive]) :
                      LET t == archives'[history'[n].archive][i] IN
                      t.k = "ev" => t.ev.session_id = history'[n].session_id]_vars

\* C27: a finalize that started after a finalize of the same session had
\* answered with a "block" decision, with no before-call or after-call
\* event in between, finds no log: it ends at its first step with the empty
\* acknowledgment, archives nothing and adds no history record, so the one
\* log brought one block decision.
C27_BlockOnlyOnce ==
    \A p, q \in Procs :
        (/\ p # q
         /\ proc[p].mode = "stop" /\ proc[q].mode = "stop"
         /\ proc[p].session = proc[q].session
         /\ proc[p].pc = "done"
         /\ proc[p].out = <<"block">>
         /\ proc[q].hist0 > proc[p].hist0)
        => /\ ~active[proc[p].session].exists
           /\ proc[q].pc \in {"read", "done"}
           /\ proc[q].pc = "done" =>
                  /\ proc[q].out = <<"{}">>
                  /\ ~proc[q].faulted
           /\ Len(RecordsOf(history, proc[p].session)) = proc[p].hist0 + 1

\* A finalize that blocked, and the next finalize of the session, which
\* acknowledged
C27_Witness ==
    \E p, q \in Procs :
        /\ p # q
        /\ proc[p].mode = "stop" /\ proc[q].mode = "stop"
        /\ proc[p].session = "s1" /\ proc[q].session = "s1"
        /\ proc[p].pc = "done" /\ proc[q].pc = "done"
        /\ proc[p].out = <<"block">>
        /\ proc[q].hist0 > proc[p].hist0
        /\ proc[q].out = <<"{}">>

====
